---- MODULE Spec2Model ----
(***************************************************************************)
(* Pedestrian crossing-decision threshold model and its calibration        *)
(* pipeline (model/saved_models/CNRS_behavior_model.py and                 *)
(* model/model_training/train.py).                                         *)
(*                                                                         *)
(* Python floats are modelled as extended numbers: a finite value is the   *)
(* exact rational n/d * 10^e, and NaN, +inf and -inf are kinds of their    *)
(* own that follow the IEEE-754 rules Python applies to float operands.    *)
(* Comparisons of finite values are exact: the cross products are taken    *)
(* in arbitrary-precision arithmetic (digit sequences).                    *)
(***************************************************************************)
EXTENDS Integers, Sequences, FiniteSets, TLC

\* ------------------------------------------------------------------------
\* Arbitrary-precision naturals: little-endian digit sequences, base 10^4
\* ------------------------------------------------------------------------

Base == 10 ^ 4

Abs(i) == IF i < 0 THEN -i ELSE i

Sign(i) == IF i < 0 THEN -1 ELSE IF i = 0 THEN 0 ELSE 1

Min(i, j) == IF i <= j THEN i ELSE j

RECURSIVE NatToBig(_)
NatToBig(i) == IF i = 0 THEN << >> ELSE <<i % Base>> \o NatToBig(i \div Base)

RECURSIVE BigAddC(_, _, _)
BigAddC(x, y, carry) ==
    IF x = << >> /\ y = << >>
    THEN NatToBig(carry)
    ELSE LET hx == IF x = << >> THEN 0 ELSE Head(x)
             hy == IF y = << >> THEN 0 ELSE Head(y)
             tx == IF x = << >> THEN << >> ELSE Tail(x)
             ty == IF y = << >> THEN << >> ELSE Tail(y)
             s  == hx + hy + carry
         IN  <<s % Base>> \o BigAddC(tx, ty, s \div Base)

RECURSIVE BigMulDigit(_, _, _)
BigMulDigit(x, digit, carry) ==
    IF x = << >>
    THEN NatToBig(carry)
    ELSE LET s == Head(x) * digit + carry
         IN  <<s % Base>> \o BigMulDigit(Tail(x), digit, s \div Base)

BigShift(x) == IF x = << >> THEN << >> ELSE <<0>> \o x

RECURSIVE BigMul(_, _)
BigMul(x, y) ==
    IF x = << >> \/ y = << >>
    THEN << >>
    ELSE LET low == IF Head(y) = 0 THEN << >> ELSE BigMulDigit(x, Head(y), 0)
         IN  BigAddC(low, BigShift(BigMul(x, Tail(y))), 0)

RECURSIVE BigPow10(_)
BigPow10(p) == IF p = 0 THEN <<1>> ELSE BigMulDigit(BigPow10(p - 1), 10, 0)

RECURSIVE BigLt(_, _)
BigLt(x, y) ==
    IF Len(x) # Len(y)
    THEN Len(x) < Len(y)
    ELSE IF x = << >>
         THEN FALSE
         ELSE LET mx == x[Len(x)]
                  my == y[Len(y)]
              IN  IF mx # my
                  THEN mx < my
                  ELSE BigLt(SubSeq(x, 1, Len(x) - 1), SubSeq(y, 1, Len(y) - 1))

RECURSIVE BigTrim(_)
BigTrim(x) ==
    IF x = << >>
    THEN x
    ELSE IF x[Len(x)] = 0 THEN BigTrim(SubSeq(x, 1, Len(x) - 1)) ELSE x

\* x - y for x >= y, digit by digit with borrow (leading zeros left in place)
RECURSIVE BigSubB(_, _, _)
BigSubB(x, y, borrow) ==
    IF x = << >>
    THEN << >>
    ELSE LET hy == IF y = << >> THEN 0 ELSE Head(y)
             ty == IF y = << >> THEN << >> ELSE Tail(y)
             s  == Head(x) - hy - borrow
         IN  IF s < 0
             THEN <<s + Base>> \o BigSubB(Tail(x), ty, 1)
             ELSE <<s>> \o BigSubB(Tail(x), ty, 0)

BigSub(x, y) == BigTrim(BigSubB(x, y, 0))

\* ------------------------------------------------------------------------
\* Extended numbers (Python float): kind k; for a finite value the sign s,
\* and the magnitude n/d * 10^e with n, d arbitrary-precision naturals
\* ------------------------------------------------------------------------

Dec(m, p) == [k |-> "fin", s |-> Sign(m), n |-> NatToBig(Abs(m)), d |-> <<1>>, e |-> p]

Num(m) == Dec(m, 0)

NaN == [k |-> "nan", s |-> 0, n |-> << >>, d |-> <<1>>, e |-> 0]

PosInf == [k |-> "pinf", s |-> 1, n |-> << >>, d |-> <<1>>, e |-> 0]

NegInf == [k |-> "ninf", s |-> -1, n |-> << >>, d |-> <<1>>, e |-> 0]

Unset == [k |-> "unset", s |-> 0, n |-> << >>, d |-> <<1>>, e |-> 0]

IsFinite(x) == x.k = "fin"

IsInf(x) == x.k \in {"pinf", "ninf"}

InfOfSign(sg) == IF sg > 0 THEN PosInf ELSE NegInf

NNeg(x) ==
    CASE x.k = "fin"  -> [x EXCEPT !.s = -x.s]
      [] x.k = "pinf" -> NegInf
      [] x.k = "ninf" -> PosInf
      [] OTHER        -> x

NMul(x, y) ==
    IF x.k = "nan" \/ y.k = "nan"
    THEN NaN
    ELSE IF IsInf(x) \/ IsInf(y)
         THEN IF x.s * y.s = 0 THEN NaN ELSE InfOfSign(x.s * y.s)
         ELSE [k |-> "fin", s |-> x.s * y.s, n |-> BigMul(x.n, y.n),
               d |-> BigMul(x.d, y.d), e |-> x.e + y.e]

\* sum of two finite values, over the common denominator and exponent
FinAdd(x, y) ==
    LET p  == Min(x.e, y.e)
        mx == BigMul(BigMul(x.n, y.d), BigPow10(x.e - p))
        my == BigMul(BigMul(y.n, x.d), BigPow10(y.e - p))
        dd == BigMul(x.d, y.d)
    IN  IF x.s = 0 THEN y
        ELSE IF y.s = 0 THEN x
        ELSE IF x.s = y.s
             THEN [k |-> "fin", s |-> x.s, n |-> BigAddC(mx, my, 0), d |-> dd, e |-> p]
             ELSE IF mx = my
                  THEN Num(0)
                  ELSE IF BigLt(mx, my)
                       THEN [k |-> "fin", s |-> y.s, n |-> BigSub(my, mx), d |-> dd, e |-> p]
                       ELSE [k |-> "fin", s |-> x.s, n |-> BigSub(mx, my), d |-> dd, e |-> p]

NAdd(x, y) ==
    IF x.k = "nan" \/ y.k = "nan"
    THEN NaN
    ELSE IF IsInf(x) /\ IsInf(y)
         THEN IF x.k = y.k THEN x ELSE NaN
         ELSE IF IsInf(x)
              THEN x
              ELSE IF IsInf(y) THEN y ELSE FinAdd(x, y)

NSub(x, y) == NAdd(x, NNeg(y))

\* x / y; the divisor is never a finite zero where the program divides
NDiv(x, y) ==
    IF x.k = "nan" \/ y.k = "nan"
    THEN NaN
    ELSE IF IsInf(x)
         THEN IF IsInf(y) THEN NaN ELSE InfOfSign(x.s * (IF y.s < 0 THEN -1 ELSE 1))
         ELSE IF IsInf(y) \/ x.s = 0
              THEN Num(0)
              ELSE [k |-> "fin", s |-> x.s * y.s, n |-> BigMul(x.n, y.d),
                    d |-> BigMul(y.n, x.d), e |-> x.e - y.e]

\* exact x < y for finite x, y
FinLt(x, y) ==
    LET p  == Min(x.e, y.e)
        mx == BigMul(BigMul(x.n, y.d), BigPow10(x.e - p))
        my == BigMul(BigMul(y.n, x.d), BigPow10(y.e - p))
    IN  IF x.s # y.s
        THEN x.s < y.s
        ELSE IF x.s >= 0 THEN BigLt(mx, my) ELSE BigLt(my, mx)

NLt(x, y) ==
    IF x.k = "nan" \/ y.k = "nan"
    THEN FALSE
    ELSE IF IsInf(x) \/ IsInf(y)
         THEN IF IsInf(x) /\ IsInf(y)
              THEN x.k = "ninf" /\ y.k = "pinf"
              ELSE IF IsInf(x) THEN x.k = "ninf" ELSE y.k = "pinf"
         ELSE FinLt(x, y)

NEq(x, y) ==
    IF x.k = "nan" \/ y.k = "nan"
    THEN FALSE
    ELSE IF IsInf(x) \/ IsInf(y)
         THEN x.k = y.k
         ELSE ~FinLt(x, y) /\ ~FinLt(y, x)

NLe(x, y) == NLt(x, y) \/ NEq(x, y)

\* ------------------------------------------------------------------------
\* Decision function: CNRS_behavior_model.pedestrian_behavior_model
\* ------------------------------------------------------------------------

coefs_mean ==
    [height |-> Dec(-13614, -4), height2 |-> Dec(39, -4),
     velocity |-> Dec(-540, -4), intercept |-> Dec(1260592, -4)]

alphas_mean ==
    ("clear" :> Dec(10385, -4)) @@ ("night" :> Dec(10008, -4)) @@ ("rain" :> Dec(9681, -4))

stds ==
    ("clear" :> Dec(100, -2)) @@ ("night" :> Dec(94, -2)) @@ ("rain" :> Dec(72, -2))

mes ==
    ("clear" :> Dec(4, -2)) @@ ("night" :> Dec(0, -2)) @@ ("rain" :> Dec(0, -2))

use_adjusted_default_on == TRUE

\* the value of the optional parameter use_adjusted when the caller omits it
use_adjusted_default == FALSE

\* the replacement the function makes for a velocity that is not positive
velocity_floor == Dec(1, -9)

NoFrame ==
    [raised |-> "none", returned |-> "none", predicted_time |-> Unset,
     adjusted_time |-> Unset, velocity_m_s |-> Unset, real_time |-> Unset,
     threshold |-> Unset]

base_pred_of_linear(a, b, c, intercept, height, velocity) ==
    NAdd(NAdd(NAdd(NMul(a, height), NMul(b, height)), NMul(c, velocity)), intercept)

base_pred_of(a, b, c, intercept, height, velocity) ==
    NAdd(NAdd(NAdd(NMul(a, height), NMul(b, NMul(height, height))),
              NMul(c, velocity)), intercept)

predicted_time_of(alpha, a, b, c, intercept, height, velocity) ==
    NMul(alpha, base_pred_of(a, b, c, intercept, height, velocity))

adjusted_time_of(predicted_time, std, me) ==
    NAdd(NSub(predicted_time, NMul(Num(2), std)), me)

velocity_m_s_of(velocity) ==
    LET v == NDiv(NMul(velocity, Num(1000)), Num(3600))
    IN  IF NLe(v, Num(0)) THEN velocity_floor ELSE v

threshold_of_swapped(use_adjusted, adjusted_time, predicted_time) ==
    IF use_adjusted THEN predicted_time ELSE adjusted_time

threshold_of(use_adjusted, adjusted_time, predicted_time) ==
    IF use_adjusted THEN adjusted_time ELSE predicted_time

decision_of_le(real_time, threshold) ==
    IF NLe(real_time, threshold) THEN "False" ELSE "True"

decision_of_inverted(real_time, threshold) ==
    IF NLt(threshold, real_time) THEN "False" ELSE "True"

decision_of(real_time, threshold) ==
    IF NLt(real_time, threshold) THEN "False" ELSE "True"

body_of_model(weather, height, velocity, distance, use_adjusted) ==
    LET alpha == alphas_mean[weather]
        a == coefs_mean.height
        b == coefs_mean.height2
        c == coefs_mean.velocity
        intercept == coefs_mean.intercept
        predicted_time == predicted_time_of(alpha, a, b, c, intercept, height, velocity)
        adjusted_time == adjusted_time_of(predicted_time, stds[weather], mes[weather])
        velocity_m_s == velocity_m_s_of(velocity)
        real_time == NDiv(distance, velocity_m_s)
        threshold == threshold_of(use_adjusted, adjusted_time, predicted_time)
    IN  [raised |-> "none",
         returned |-> decision_of(real_time, threshold),
         predicted_time |-> predicted_time,
         adjusted_time |-> adjusted_time,
         velocity_m_s |-> velocity_m_s,
         real_time |-> real_time,
         threshold |-> threshold]

pedestrian_behavior_model_fallback(weather, height, velocity, distance, use_adjusted) ==
    IF weather \notin DOMAIN alphas_mean
    THEN body_of_model("clear", height, velocity, distance, use_adjusted)
    ELSE body_of_model(weather, height, velocity, distance, use_adjusted)

pedestrian_behavior_model(weather, height, velocity, distance, use_adjusted) ==
    IF weather \notin DOMAIN alphas_mean
    THEN [NoFrame EXCEPT !.raised = "ValueError"]
    ELSE body_of_model(weather, height, velocity, distance, use_adjusted)

\* ------------------------------------------------------------------------
\* Callers of the decision function: the arguments they may pass
\* ------------------------------------------------------------------------

NonFinite == {NaN, PosInf, NegInf}

Weathers == {"clear", "night", "rain", "fog"}

Heights == {Num(153), Num(175)} \cup NonFinite

Velocities == {Num(-5), Num(0), Num(50), Num(72)} \cup NonFinite

\* 107.424517 m and 68.224517 m are the distances at which, for clear
\* weather, 153 cm and 72 km/h, the real time-to-contact equals the
\* unadjusted and the adjusted threshold
Distances ==
    {Num(-1), Num(0), Num(1), Num(40), Dec(68224517, -6), Dec(107424517, -6)} \cup NonFinite

\* how the caller passes use_adjusted: not at all, or explicitly
Variants == {"omitted", "True", "False"}

VARIABLES
    pc,            \* "idle": no call in progress; "returned": a call has completed
    weather,       \* arguments of the last call ("none", Unset: no call yet)
    height,
    velocity,
    distance,
    variant,
    frame          \* locals and outcome of the last call

decVars == <<pc, weather, height, velocity, distance, variant, frame>>

InitDecision ==
    /\ pc = "idle"
    /\ weather = "none"
    /\ height = Unset
    /\ velocity = Unset
    /\ distance = Unset
    /\ variant = "omitted"
    /\ frame = NoFrame

Call(w, h, v, d, u) ==
    /\ pc = "idle"
    /\ pc' = "returned"
    /\ weather' = w
    /\ height' = h
    /\ velocity' = v
    /\ distance' = d
    /\ variant' = u
    /\ frame' = pedestrian_behavior_model(
                    w, h, v, d, IF u = "omitted" THEN use_adjusted_default ELSE u = "True")

\* the caller has consumed the outcome; the function keeps no state
Return ==
    /\ pc = "returned"
    /\ pc' = "idle"
    /\ weather' = "none"
    /\ height' = Unset
    /\ velocity' = Unset
    /\ distance' = Unset
    /\ variant' = "omitted"
    /\ frame' = NoFrame

CallAny ==
    \E w \in Weathers, h \in Heights, v \in Velocities, d \in Distances, u \in Variants :
        Call(w, h, v, d, u)

\* ------------------------------------------------------------------------
\* Calibration pipeline: train.py
\* ------------------------------------------------------------------------

N_SPLITS_CV == 10

\* TEST_SIZE_GLOBAL = 0.2, V2_TEST_SIZE_MAIN = 0.3 and the default
\* test_size = 0.2 of train_and_evaluate_model_v2, as fractions of 10
TEST_SIZE_GLOBAL == 2

V2_TEST_SIZE_MAIN == 3

V2_TEST_SIZE_INNER == 2

\* the weather names main() iterates over for the bias and for the export
BiasWeathers == <<"clear", "rain", "night">>

\* the file-name prefixes (text before the first underscore) a folder may hold
Labels == Weathers

\* rows per prefix that a folder may hold: the rows counted are those that
\* survive dropna and the filter avg_safety_time < 7.0
RowCounts == {0, 1, 4}

Folders == [rows : [Labels -> RowCounts]]

\* what the least-squares fits yield is a function of the rows that is not
\* computed here: a run yields one of these families of values
Fits == {1, 2}

RECURSIVE SumOver(_, _)
SumOver(b, S) ==
    IF S = {} THEN 0
    ELSE LET w == CHOOSE x \in S : TRUE IN b[w] + SumOver(b, S \ {w})

Total(b) == SumOver(b, DOMAIN b)

Present(b) == {w \in DOMAIN b : b[w] > 0}

EmptyBag == [w \in Labels |-> 0]

SubBags(b, size) ==
    {t \in [Labels -> 0..size] : Total(t) = size /\ \A w \in Labels : t[w] <= b[w]}

\* sklearn train_test_split: n_test = ceil(test_size * n), n_train = n - n_test
NTest(n, tenths) == (tenths * n + 9) \div 10

NTrain(n, tenths) == n - NTest(n, tenths)

\* a split whose last fold is empty
FoldSize_last_empty(n, i) ==
    IF i = N_SPLITS_CV THEN 0
    ELSE n \div N_SPLITS_CV + (IF i <= n % N_SPLITS_CV THEN 1 ELSE 0)

\* sklearn KFold: the first n % n_splits folds hold one row more
FoldSize(n, i) == n \div N_SPLITS_CV + (IF i <= n % N_SPLITS_CV THEN 1 ELSE 0)

FittedCoefs(fit) ==
    IF fit = 1
    THEN coefs_mean
    ELSE [height |-> Dec(-12000, -4), height2 |-> Dec(35, -4),
          velocity |-> Dec(-500, -4), intercept |-> Dec(1100000, -4)]

FittedAlpha(fit, w) ==
    IF fit = 1 /\ w \in DOMAIN alphas_mean THEN alphas_mean[w] ELSE Dec(9500 + fit, -4)

FittedBias(fit, w) ==
    IF fit = 1 /\ w \in DOMAIN stds
    THEN [mu |-> mes[w], sigma |-> stds[w]]
    ELSE [mu |-> Dec(10 * fit, -2), sigma |-> Dec(80 + fit, -2)]

NoCoefs == [height |-> Unset, height2 |-> Unset, velocity |-> Unset, intercept |-> Unset]

NoMap == [w \in {} |-> Unset]

NoDoc == [written |-> FALSE, coefficients_global |-> NoCoefs, weather_parameters |-> NoMap]

VARIABLES
    cal_pc,            \* position of main(): "idle", "start", "prepared", "split",
                       \* "cross_validated", "biased", "evaluated", "exported", "failed"
    cal_error,         \* the exception that ended the run, or "none"
    folder,            \* data/processed as the run finds it
    fit,               \* the family of fitted values the rows of the run yield
    datas_until_limit, \* rows per weather label after loading and filtering
    weather_train,     \* rows per weather label of the train split
    weather_test,      \* rows per weather label of the test split
    cv_fold,           \* folds of the cross-validation completed so far
    cv_left,           \* train rows not yet in a validation fold
    alphas_cv,         \* per weather label, the number of alpha values collected
    coef_means,        \* global coefficients (with intercept_mean)
    alpha_means,       \* weather label -> alpha
    bias_v2,           \* weather label -> [mu, sigma]
    bias_fit_rows,     \* weather label -> the rows X_train of its bias fit, counted
                       \* by the global split they belong to: [train, test]
    final_model_yaml   \* the exported document

calVars ==
    <<cal_pc, cal_error, folder, fit, datas_until_limit, weather_train, weather_test,
      cv_fold, cv_left, alphas_cv, coef_means, alpha_means, bias_v2, bias_fit_rows, final_model_yaml>>

runVars ==
    <<datas_until_limit, weather_train, weather_test, cv_fold, cv_left, alphas_cv,
      coef_means, alpha_means, bias_v2, bias_fit_rows>>

NoFolder == [rows |-> EmptyBag]

InitCalibration ==
    /\ cal_pc = "idle"
    /\ cal_error = "none"
    /\ folder = NoFolder
    /\ fit = 1
    /\ datas_until_limit = EmptyBag
    /\ weather_train = EmptyBag
    /\ weather_test = EmptyBag
    /\ cv_fold = 0
    /\ cv_left = EmptyBag
    /\ alphas_cv = NoMap
    /\ coef_means = NoCoefs
    /\ alpha_means = NoMap
    /\ bias_v2 = NoMap
    /\ bias_fit_rows = NoMap
    /\ final_model_yaml = NoDoc

Fail(error) ==
    /\ cal_pc' = "failed"
    /\ cal_error' = error

\* python train.py is started on a folder
StartRun(f) ==
    /\ cal_pc = "idle"
    /\ cal_pc' = "start"
    /\ cal_error' = "none"
    /\ folder' = f
    /\ fit' = 1
    /\ datas_until_limit' = EmptyBag
    /\ weather_train' = EmptyBag
    /\ weather_test' = EmptyBag
    /\ cv_fold' = 0
    /\ cv_left' = EmptyBag
    /\ alphas_cv' = NoMap
    /\ coef_means' = NoCoefs
    /\ alpha_means' = NoMap
    /\ bias_v2' = NoMap
    /\ bias_fit_rows' = NoMap
    /\ UNCHANGED final_model_yaml

\* main() step 1: load_csv_files and prepare_data
LoadAndPrepare ==
    /\ cal_pc = "start"
    /\ IF Present(folder.rows) = {}
       THEN /\ Fail("FileNotFoundError")
            /\ UNCHANGED datas_until_limit
       ELSE /\ cal_pc' = "prepared"
            /\ datas_until_limit' = folder.rows
            /\ UNCHANGED cal_error
    /\ UNCHANGED <<folder, fit, weather_train, weather_test, cv_fold, cv_left, alphas_cv,
                   coef_means, alpha_means, bias_v2, bias_fit_rows, final_model_yaml>>

\* main() step 3: train_test_split(X, y, weather, test_size=0.2)
SplitGlobal ==
    /\ cal_pc = "prepared"
    /\ LET n == Total(datas_until_limit)
       IN  IF n = 0 \/ NTrain(n, TEST_SIZE_GLOBAL) = 0
           THEN /\ Fail("ValueError")
                /\ UNCHANGED <<weather_train, weather_test>>
           ELSE \E t \in SubBags(datas_until_limit, NTest(n, TEST_SIZE_GLOBAL)) :
                    /\ cal_pc' = "split"
                    /\ weather_test' = t
                    /\ weather_train' = [w \in Labels |-> datas_until_limit[w] - t[w]]
                    /\ UNCHANGED cal_error
    /\ UNCHANGED <<folder, fit, datas_until_limit, cv_fold, cv_left, alphas_cv,
                   coef_means, alpha_means, bias_v2, bias_fit_rows, final_model_yaml>>

\* cross_validation_global: KFold and the dictionary alphas_cv
CrossValidationEnter ==
    /\ cal_pc = "split"
    /\ IF Total(weather_train) < N_SPLITS_CV
       THEN /\ Fail("ValueError")
            /\ UNCHANGED <<cv_left, alphas_cv>>
       ELSE /\ cal_pc' = "folds"
            /\ cv_left' = weather_train
            /\ alphas_cv' = [w \in Present(weather_train) |-> 0]
            /\ UNCHANGED cal_error
    /\ UNCHANGED <<folder, fit, datas_until_limit, weather_train, weather_test, cv_fold,
                   coef_means, alpha_means, bias_v2, bias_fit_rows, final_model_yaml>>

\* cross_validation_global: one iteration of the loop over the folds
Fold ==
    /\ cal_pc = "folds"
    /\ cv_fold < N_SPLITS_CV
    /\ \E val \in SubBags(cv_left, FoldSize(Total(weather_train), cv_fold + 1)) :
           /\ cv_left' = [w \in Labels |-> cv_left[w] - val[w]]
           /\ alphas_cv' = [w \in DOMAIN alphas_cv |->
                               IF val[w] = 0 THEN alphas_cv[w] ELSE alphas_cv[w] + 1]
    /\ cv_fold' = cv_fold + 1
    /\ UNCHANGED <<cal_pc, cal_error, folder, fit, datas_until_limit, weather_train,
                   weather_test, coef_means, alpha_means, bias_v2, bias_fit_rows, final_model_yaml>>

\* cross_validation_global: the means over the folds, and the return
CrossValidationReturn ==
    /\ cal_pc = "folds"
    /\ cv_fold = N_SPLITS_CV
    /\ cal_pc' = "cross_validated"
    /\ \E i \in Fits :
           /\ fit' = i
           /\ coef_means' = FittedCoefs(i)
           /\ alpha_means' = [w \in DOMAIN alphas_cv |->
                                 IF alphas_cv[w] = 0 THEN NaN ELSE FittedAlpha(i, w)]
    /\ cv_fold' = 0
    /\ cv_left' = EmptyBag
    /\ alphas_cv' = NoMap
    /\ UNCHANGED <<cal_error, folder, datas_until_limit, weather_train, weather_test,
                   bias_v2, bias_fit_rows, final_model_yaml>>

\* compute_bias_for_weather_v2(datas_until_limit, w): the rows of weather w are
\* split 70/30, then the 70 % again 80/20 in each of the V2_N_ITER sub-models
bias_fails(n) ==
    \/ n = 0
    \/ NTrain(n, V2_TEST_SIZE_MAIN) = 0
    \/ NTrain(NTrain(n, V2_TEST_SIZE_MAIN), V2_TEST_SIZE_INNER) = 0

\* compute_bias_for_weather_v2(datas_until_limit, w): X_train is drawn by
\* train_test_split (random_state 253) from all the rows of weather w of
\* datas_until_limit, whichever side of the global split they are on
bias_X_train(w) ==
    {r \in [train : 0..weather_train[w], test : 0..weather_test[w]] :
        r.train + r.test = NTrain(datas_until_limit[w], V2_TEST_SIZE_MAIN)}

\* main() step 5: one iteration of the loop over BiasWeathers
BiasStep ==
    /\ cal_pc = "cross_validated"
    /\ LET i == Cardinality(DOMAIN bias_v2) + 1
           w == BiasWeathers[i]
       IN  IF bias_fails(datas_until_limit[w])
           THEN /\ Fail("ValueError")
                /\ UNCHANGED <<bias_v2, bias_fit_rows>>
           ELSE /\ bias_v2' = (w :> FittedBias(fit, w)) @@ bias_v2
                /\ \E r \in bias_X_train(w) : bias_fit_rows' = (w :> r) @@ bias_fit_rows
                /\ cal_pc' = IF i = Len(BiasWeathers) THEN "biased" ELSE cal_pc
                /\ UNCHANGED cal_error
    /\ UNCHANGED <<folder, fit, datas_until_limit, weather_train, weather_test, cv_fold,
                   cv_left, alphas_cv, coef_means, alpha_means, final_model_yaml>>

\* predict_final_one on a test row of weather w: the exception it raises
predict_final_one_raises(w, alphas, bias) ==
    IF w \notin DOMAIN alphas THEN "ValueError"
    ELSE IF w \notin DOMAIN bias THEN "KeyError"
    ELSE "none"

\* main() step 6: the loop over the test rows; the first row that raises ends it
Evaluate ==
    /\ cal_pc = "biased"
    /\ LET raising == {w \in Present(weather_test) :
                          predict_final_one_raises(w, alpha_means, bias_v2) # "none"}
       IN  IF raising = {}
           THEN /\ cal_pc' = "evaluated"
                /\ UNCHANGED cal_error
           ELSE \E w \in raising : Fail(predict_final_one_raises(w, alpha_means, bias_v2))
    /\ UNCHANGED <<folder, fit, datas_until_limit, weather_train, weather_test, cv_fold,
                   cv_left, alphas_cv, coef_means, alpha_means, bias_v2, bias_fit_rows, final_model_yaml>>

export_weathers == {BiasWeathers[i] : i \in DOMAIN BiasWeathers}

\* main() step 7: export_data and yaml.dump
Export ==
    /\ cal_pc = "evaluated"
    /\ IF \E w \in export_weathers : w \notin DOMAIN alpha_means
       THEN /\ Fail("KeyError")
            /\ UNCHANGED final_model_yaml
       ELSE /\ cal_pc' = "exported"
            /\ final_model_yaml' =
                   [written |-> TRUE,
                    coefficients_global |-> coef_means,
                    weather_parameters |->
                        [w \in export_weathers |->
                            [alpha_weather |-> alpha_means[w], bias |-> bias_v2[w]]]]
            /\ UNCHANGED cal_error
    /\ UNCHANGED <<folder, fit, runVars>>

\* ------------------------------------------------------------------------
\* Calibration runs on one folder: the enumeration of the files and the seeds
\* ------------------------------------------------------------------------

\* numpy RandomState(RANDOM_STATE_GLOBAL = 42).permutation(n), n = 1..16: the
\* shuffle behind train_test_split(..., random_state=RANDOM_STATE_GLOBAL);
\* positions count from 0 as in the code
permutation_global ==
    << <<0>>,
       <<1, 0>>,
       <<0, 1, 2>>,
       <<1, 3, 0, 2>>,
       <<1, 4, 2, 0, 3>>,
       <<0, 1, 5, 2, 4, 3>>,
       <<0, 1, 5, 2, 4, 3, 6>>,
       <<1, 5, 0, 7, 2, 4, 3, 6>>,
       <<7, 1, 5, 0, 8, 2, 4, 3, 6>>,
       <<8, 1, 5, 0, 7, 2, 9, 4, 3, 6>>,
       <<5, 0, 9, 10, 2, 1, 8, 4, 7, 3, 6>>,
       <<10, 9, 0, 8, 5, 2, 1, 11, 4, 7, 3, 6>>,
       <<11, 9, 0, 8, 5, 2, 1, 12, 4, 7, 10, 3, 6>>,
       <<9, 11, 0, 12, 5, 8, 2, 1, 13, 4, 7, 10, 3, 6>>,
       <<9, 11, 0, 13, 5, 8, 2, 1, 14, 4, 7, 10, 12, 3, 6>>,
       <<0, 1, 5, 14, 13, 11, 8, 9, 2, 15, 4, 7, 10, 12, 3, 6>> >>

\* the runs of main() observed on one folder
MaxRuns == 2

\* the values datetime.now() may take
Clock == {1, 2}

\* the orders in which folder_path.iterdir() may enumerate the files of a folder
Listings(f) ==
    {l \in [1..Cardinality(Present(f.rows)) -> Present(f.rows)] :
        \A i, j \in DOMAIN l : i # j => l[i] # l[j]}

\* the weather column of datas: the rows of each file, in the order of all_files
RECURSIVE weather_column(_, _)
weather_column(f, all_files) ==
    IF all_files = << >> THEN << >>
    ELSE [i \in 1..f.rows[Head(all_files)] |-> Head(all_files)]
             \o weather_column(f, Tail(all_files))

\* the positions (from 1) of the test rows and of the train rows of the global split
test_positions(n) ==
    {permutation_global[n][i] + 1 : i \in 1..NTest(n, TEST_SIZE_GLOBAL)}

CountOf(col, positions) ==
    [w \in Labels |-> Cardinality({i \in positions : col[i] = w})]

\* the exception predict_final_one raises first in the loop over the test rows,
\* which follows the order of the permutation
RECURSIVE first_raised(_, _, _, _)
first_raised(col, n, i, alphas) ==
    IF i > NTest(n, TEST_SIZE_GLOBAL) THEN "none"
    ELSE LET w == col[permutation_global[n][i] + 1]
             raised == IF w \notin alphas THEN "ValueError"
                       ELSE IF w \notin {BiasWeathers[k] : k \in DOMAIN BiasWeathers}
                            THEN "KeyError" ELSE "none"
         IN  IF raised # "none" THEN raised ELSE first_raised(col, n, i + 1, alphas)

NoSplit == [weather_train |-> EmptyBag, weather_test |-> EmptyBag, alpha_means |-> {}]

Failed(error, split) ==
    [status |-> "failed", error |-> error] @@ split

\* main() from the files as enumerated to the export: the rows each fit and the
\* metrics are computed from, the weathers alpha is released for, and how the
\* run ends
main_result(f, all_files) ==
    LET col == weather_column(f, all_files)
        n == Len(col)
        test == test_positions(n)
        split == [weather_train |-> CountOf(col, (1..n) \ test),
                  weather_test |-> CountOf(col, test),
                  alpha_means |-> Present(CountOf(col, (1..n) \ test))]
    IN  IF all_files = << >> THEN Failed("FileNotFoundError", NoSplit)
        ELSE IF NTrain(n, TEST_SIZE_GLOBAL) = 0 THEN Failed("ValueError", NoSplit)
        ELSE IF n - Cardinality(test) < N_SPLITS_CV THEN Failed("ValueError", split)
        ELSE IF \E k \in DOMAIN BiasWeathers : bias_fails(f.rows[BiasWeathers[k]])
             THEN Failed("ValueError", split)
        ELSE IF first_raised(col, n, 1, split.alpha_means) # "none"
             THEN Failed(first_raised(col, n, 1, split.alpha_means), split)
        ELSE IF \E k \in DOMAIN BiasWeathers : BiasWeathers[k] \notin split.alpha_means
             THEN Failed("KeyError", split)
        ELSE [status |-> "exported", error |-> "none"] @@ split

VARIABLES
    processed_folder,  \* PROCESSED_FOLDER, the same files for every run observed
    run_log            \* one record per run of main(): the enumeration of the
                       \* files, the time, and main_result

ordVars == <<processed_folder, run_log>>

InitRuns ==
    /\ processed_folder = NoFolder
    /\ run_log = << >>

\* python train.py, from start to end, with the files enumerated as all_files
MainRun(f, all_files, now) ==
    /\ Len(run_log) < MaxRuns
    /\ run_log # << >> => f = processed_folder
    /\ processed_folder' = f
    /\ run_log' = Append(run_log, [all_files |-> all_files,
                                   generated_on |-> now,
                                   result |-> main_result(f, all_files)])

\* ------------------------------------------------------------------------
\* Loading and preparation, row by row: train.py load_csv_files, prepare_data
\* ------------------------------------------------------------------------

WEATHER_COL == "weather"

\* SAFETY_TIME_LIMIT = 7.0
SAFETY_TIME_LIMIT == Num(7)

RequiredColumns == {"velocity_exp2", "avg_safety_distance", "height"}

\* a file name is its parts between underscores (stem) and its suffix

\* the columns a CSV file may hold
ColumnSets ==
    {RequiredColumns} \cup {RequiredColumns \ {c} : c \in RequiredColumns}
        \cup {RequiredColumns \cup {WEATHER_COL}}

\* the cells (velocity_exp2, avg_safety_distance, height) a line of a CSV file
\* may hold; an empty cell reads as NaN
Lines ==
    {<<Num(36), Num(70), Num(170)>>,
     <<Num(50), Num(20), Num(170)>>,
     <<Num(0), Num(20), Num(170)>>,
     <<Num(-30), Num(20), Num(170)>>,
     <<Num(0), Num(0), Num(170)>>,
     <<NaN, Num(20), Num(170)>>}

\* a folder holds at most this many files
MaxFiles == 2

PlainLine == <<Num(50), Num(20), Num(170)>>

\* the files a folder may hold: clear_day.csv with the required columns and any
\* line, rain_day.csv with any columns and the plain line, night.csv, whose
\* name has no underscore, and clear_day.txt, which is no CSV file
CsvFiles ==
    [stem : {<<"clear", "day">>}, suffix : {".csv"}, columns : {RequiredColumns},
     lines : {<<l>> : l \in Lines}]
        \cup [stem : {<<"rain", "day">>}, suffix : {".csv"}, columns : ColumnSets,
              lines : {<<PlainLine>>}]
        \cup [stem : {<<"night">>}, suffix : {".csv"}, columns : {RequiredColumns},
              lines : {<<PlainLine>>}]
        \cup [stem : {<<"clear", "day">>}, suffix : {".txt"}, columns : {RequiredColumns},
              lines : {<<PlainLine>>}]

\* a folder: files of distinct names, in the order iterdir() yields them
CsvFolders ==
    {files \in UNION {[1..k -> CsvFiles] : k \in 0..MaxFiles} :
        \A i, j \in DOMAIN files :
            i # j => <<files[i].stem, files[i].suffix>> # <<files[j].stem, files[j].suffix>>}

\* the limit argument of prepare_data: None or a number
Limits == {Unset, SAFETY_TIME_LIMIT}

\* "_" in filename
has_underscore(file) == Len(file.stem) > 1

weather_of_last(file) == file.stem[Len(file.stem)]

\* filename.split("_")[0]
weather_of(file) == file.stem[1]

\* pd.read_csv(file) and df[WEATHER_COL] = weather: the cells of each line for
\* the columns of the file (a weather column of the file reads "snow"), then
\* the weather column set to the label; origin is the position of the file
\* in all_files and line the position of the line in the file
read_cells(file, line) ==
    [c \in file.columns |->
        CASE c = WEATHER_COL           -> "snow"
          [] c = "velocity_exp2"       -> line[1]
          [] c = "avg_safety_distance" -> line[2]
          [] OTHER                     -> line[3]]

line_cells(file, line) == (WEATHER_COL :> weather_of(file)) @@ read_cells(file, line)

labelled_frame(file, origin) ==
    [columns |-> file.columns \cup {WEATHER_COL},
     rows |-> [i \in DOMAIN file.lines |->
                  [cells |-> line_cells(file, file.lines[i]), origin |-> origin, line |-> i]]]

EmptyFrame == [columns |-> {}, rows |-> << >>]

\* a row widened to the columns cols, NaN where it has no cell
widened(row, cols) ==
    [row EXCEPT !.cells = [c \in cols |-> IF c \in DOMAIN row.cells THEN row.cells[c] ELSE NaN]]

\* pd.concat([datas, df], ignore_index=True)
concat(table, df) ==
    LET cols == table.columns \cup df.columns
    IN  [columns |-> cols,
         rows |-> [i \in DOMAIN table.rows |-> widened(table.rows[i], cols)]
                      \o [i \in DOMAIN df.rows |-> widened(df.rows[i], cols)]]

\* the loop of load_csv_files over all_files, from file i on
RECURSIVE concat_files(_, _, _)
concat_files(files, i, table) ==
    IF i > Len(files) THEN table
    ELSE IF ~has_underscore(files[i]) THEN concat_files(files, i + 1, table)
    ELSE concat_files(files, i + 1, concat(table, labelled_frame(files[i], i)))

\* a new column computed row by row
with_column(table, name, value(_)) ==
    [columns |-> table.columns \cup {name},
     rows |-> [i \in DOMAIN table.rows |->
                  [table.rows[i] EXCEPT !.cells =
                      (name :> value(table.rows[i].cells)) @@ table.rows[i].cells]]]

\* division of two float columns: x / 0 is NaN for x = 0, else infinite
series_div(x, y) ==
    IF IsFinite(y) /\ y.s = 0
    THEN IF x.k = "nan" \/ (IsFinite(x) /\ x.s = 0) THEN NaN ELSE InfOfSign(x.s)
    ELSE NDiv(x, y)

\* a missing cell: NaN; the weather column holds the label of the file
is_na(cells, c) == c # WEATHER_COL /\ cells[c].k = "nan"

\* DataFrame.dropna(): the rows without a missing cell
dropna(table) ==
    [table EXCEPT !.rows =
        SelectSeq(table.rows, LAMBDA r : \A c \in DOMAIN r.cells : ~is_na(r.cells, c))]

NoRaise == [error |-> "none", in |-> "none", derived |-> {}]

Raise(error, in, derived) == [error |-> error, in |-> in, derived |-> derived]

\* load_csv_files(folder_path): what it raises, or the table it returns
load_csv_files(files) ==
    LET all_csv == SelectSeq(files, LAMBDA fp : fp.suffix = ".csv")
        concatenated == concat_files(all_csv, 1, EmptyFrame)
        with_ms == with_column(concatenated, "velocity_ms",
                       LAMBDA cells : NMul(cells["velocity_exp2"], NDiv(Num(5), Num(18))))
        with_time == with_column(with_ms, "avg_safety_time",
                         LAMBDA cells : series_div(cells["avg_safety_distance"],
                                                   cells["velocity_ms"]))
    IN  IF all_csv = << >>
        THEN [raised |-> Raise("FileNotFoundError", "load_csv_files", {}),
              returned |-> EmptyFrame]
        ELSE IF "velocity_exp2" \notin concatenated.columns
        THEN [raised |-> Raise("KeyError", "load_csv_files", {}), returned |-> EmptyFrame]
        ELSE IF "avg_safety_distance" \notin with_ms.columns
        THEN [raised |-> Raise("KeyError", "load_csv_files", {"velocity_ms"}),
              returned |-> EmptyFrame]
        ELSE [raised |-> NoRaise, returned |-> dropna(with_time)]

\* df["avg_safety_time"] < limit
keeps_le(time, limit) == NLe(time, limit)

keeps(time, limit) == NLt(time, limit)

\* prepare_data(datas, limit): what it raises, or the table it returns
prepare_data(table, limit) ==
    LET filtered ==
            IF limit = Unset THEN table
            ELSE [table EXCEPT !.rows =
                     SelectSeq(table.rows,
                               LAMBDA r : keeps(r.cells["avg_safety_time"], limit))]
    IN  IF "height" \notin filtered.columns
        THEN [raised |-> Raise("KeyError", "prepare_data",
                               {"velocity_ms", "avg_safety_time"}),
              returned |-> EmptyFrame]
        ELSE [raised |-> NoRaise,
              returned |-> with_column(filtered, "height^2",
                               LAMBDA cells : NMul(cells["height"], cells["height"]))]

VARIABLES
    load_pc,       \* "idle", "loaded", "prepared" or "failed"
    csv_folder,    \* the files of PROCESSED_FOLDER as iterdir() enumerates them
    load_raised,   \* the exception raised, the function that raised it and the
                   \* columns derived before it
    datas,         \* the frame load_csv_files returned
    limit_arg,     \* the limit prepare_data was called with
    df             \* the frame prepare_data returned

loadVars == <<load_pc, csv_folder, load_raised, datas, limit_arg, df>>

InitLoad ==
    /\ load_pc = "idle"
    /\ csv_folder = << >>
    /\ load_raised = NoRaise
    /\ datas = EmptyFrame
    /\ limit_arg = Unset
    /\ df = EmptyFrame

\* datas = load_csv_files(PROCESSED_FOLDER)
LoadCsvFiles(files) ==
    /\ load_pc = "idle"
    /\ csv_folder' = files
    /\ LET call == load_csv_files(files)
       IN  /\ load_raised' = call.raised
           /\ datas' = call.returned
           /\ load_pc' = IF call.raised.error = "none" THEN "loaded" ELSE "failed"
    /\ UNCHANGED <<limit_arg, df>>

\* datas_until_limit = prepare_data(datas, limit)
PrepareData(limit) ==
    /\ load_pc = "loaded"
    /\ limit_arg' = limit
    /\ LET call == prepare_data(datas, limit)
       IN  /\ load_raised' = call.raised
           /\ df' = call.returned
           /\ load_pc' = IF call.raised.error = "none" THEN "prepared" ELSE "failed"
    /\ UNCHANGED <<csv_folder, datas>>

\* ------------------------------------------------------------------------
\* Cross-validation, fold by fold: train.py cross_validation_global
\* ------------------------------------------------------------------------

\* the train splits cross_validation_global is called on, as rows per weather
KFoldTrains ==
    {("clear" :> 9) @@ ("rain" :> 1) @@ EmptyBag,
     ("clear" :> 8) @@ ("night" :> 2) @@ EmptyBag,
     ("clear" :> 9) @@ ("rain" :> 2) @@ EmptyBag,
     ("clear" :> 6) @@ ("rain" :> 3) @@ ("fog" :> 1) @@ EmptyBag,
     ("clear" :> 5) @@ ("rain" :> 4) @@ EmptyBag}

\* subset["y_true"].mean() / subset["y_pred"].mean() in fold i for weather w:
\* a function of the rows and of the fit of the fold that is not computed
\* here; the folds and the weathers yield distinct values
alpha_w_of(i, w) ==
    Dec(9000 + 37 * i * i + (CASE w = "clear" -> 500 [] w = "rain" -> 13
                               [] w = "night" -> 211 [] OTHER -> 89), -4)

skips_never(subset_len) == FALSE

\* if len(subset) == 0: continue
skips(subset_len) == subset_len = 0

RECURSIVE SeqSum(_)
SeqSum(vals) == IF vals = << >> THEN Num(0) ELSE NAdd(Head(vals), SeqSum(Tail(vals)))

\* float(np.mean(vals)): NaN for an empty list
np_mean(vals) == IF vals = << >> THEN NaN ELSE NDiv(SeqSum(vals), Num(Len(vals)))

VARIABLES
    kf_pc,           \* "idle", "folds", "returned" or "failed"
    kf_train,        \* weather_train: rows per weather
    kf_left,         \* rows not yet in a validation fold
    kf_val,          \* weather_val of each fold completed, as rows per weather
    kf_alphas_cv,    \* alphas_cv: weather -> the list of alpha_w values
    kf_alpha_means   \* the alpha_means returned

cvVars == <<kf_pc, kf_train, kf_left, kf_val, kf_alphas_cv, kf_alpha_means>>

InitKFold ==
    /\ kf_pc = "idle"
    /\ kf_train = EmptyBag
    /\ kf_left = EmptyBag
    /\ kf_val = << >>
    /\ kf_alphas_cv = NoMap
    /\ kf_alpha_means = NoMap

\* cross_validation_global(X_train, y_train, weather_train) up to the loop
KFoldStart(train) ==
    /\ kf_pc = "idle"
    /\ kf_train' = train
    /\ IF Total(train) < N_SPLITS_CV
       THEN /\ kf_pc' = "failed"
            /\ UNCHANGED <<kf_left, kf_alphas_cv>>
       ELSE /\ kf_pc' = "folds"
            /\ kf_left' = train
            /\ kf_alphas_cv' = [w \in Present(train) |-> << >>]
    /\ UNCHANGED <<kf_val, kf_alpha_means>>

\* one iteration of the loop over kf.split(X_train)
KFoldIteration ==
    /\ kf_pc = "folds"
    /\ Len(kf_val) < N_SPLITS_CV
    /\ \E val \in SubBags(kf_left, FoldSize(Total(kf_train), Len(kf_val) + 1)) :
           /\ kf_left' = [w \in Labels |-> kf_left[w] - val[w]]
           /\ kf_val' = Append(kf_val, val)
           /\ kf_alphas_cv' =
                  [w \in DOMAIN kf_alphas_cv |->
                      IF skips(val[w]) THEN kf_alphas_cv[w]
                      ELSE Append(kf_alphas_cv[w],
                                  IF val[w] = 0 THEN NaN
                                  ELSE alpha_w_of(Len(kf_val) + 1, w))]
    /\ UNCHANGED <<kf_pc, kf_train, kf_alpha_means>>

\* alpha_means = {w: float(np.mean(vals)) for w, vals in alphas_cv.items()}
KFoldMeans ==
    /\ kf_pc = "folds"
    /\ Len(kf_val) = N_SPLITS_CV
    /\ kf_pc' = "returned"
    /\ kf_alpha_means' = [w \in DOMAIN kf_alphas_cv |-> np_mean(kf_alphas_cv[w])]
    /\ UNCHANGED <<kf_train, kf_left, kf_val, kf_alphas_cv>>

\* ------------------------------------------------------------------------
\* Command line of the decision function: CNRS_behavior_model.py __main__
\* ------------------------------------------------------------------------

\* choices=['clear', 'rain', 'night'] of -weather
weather_choices == {"clear", "rain", "night"}

\* the words a command line may give after -weather; "" is the option left out
WeatherWords == {"clear", "rain", "night", "fog", ""}

\* the words a command line may give after -height, -velocity, -distance
HeightWords == {"175", "nan", "abc", ""}

VelocityWords == {"50", "0", "inf"}

DistanceWords == {"40", "-1", "inf", "-inf", "nan"}

\* argparse takes a word that starts with "-" and is no negative number for an
\* option, not for the value of the option before it
looks_like_option(word) == word \in {"-inf"}

\* float(word): the value, or Unset where float raises ValueError
float_of(word) ==
    CASE word = "175"  -> Num(175)
      [] word = "50"   -> Num(50)
      [] word = "0"    -> Num(0)
      [] word = "40"   -> Num(40)
      [] word = "-1"   -> Num(-1)
      [] word = "nan"  -> NaN
      [] word = "inf"  -> PosInf
      [] word = "-inf" -> NegInf
      [] OTHER         -> Unset

\* parser.parse_args() on one float option: the error argparse exits on
float_option_error(word) ==
    word = "" \/ looks_like_option(word) \/ float_of(word) = Unset

\* the program from parse_args to its exit: status 2 when argparse rejects the
\* command line, status 1 when the call raises, 0 after the print
main_exit(argv) ==
    LET call == pedestrian_behavior_model(argv.weather, float_of(argv.height),
                    float_of(argv.velocity), float_of(argv.distance), argv.use_adjusted)
    IN  IF \/ argv.weather \notin weather_choices
           \/ float_option_error(argv.height)
           \/ float_option_error(argv.velocity)
           \/ float_option_error(argv.distance)
        THEN [status |-> 2, printed |-> "none"]
        ELSE IF call.raised # "none"
             THEN [status |-> 1, printed |-> "none"]
             ELSE [status |-> 0, printed |-> call.returned]

CommandLines ==
    [weather : WeatherWords, height : HeightWords, velocity : VelocityWords,
     distance : DistanceWords, use_adjusted : BOOLEAN]

NoCommandLine ==
    [weather |-> "", height |-> "", velocity |-> "", distance |-> "", use_adjusted |-> FALSE]

VARIABLES
    cli_pc,     \* "idle" or "exited"
    cli_argv,   \* the command line of the last run
    cli_exit    \* its exit status and the decision it printed

cliVars == <<cli_pc, cli_argv, cli_exit>>

InitCli ==
    /\ cli_pc = "idle"
    /\ cli_argv = NoCommandLine
    /\ cli_exit = [status |-> 0, printed |-> "none"]

\* python CNRS_behavior_model.py -weather ... -height ... -velocity ... -distance ...
CliRun(argv) ==
    /\ cli_pc = "idle"
    /\ cli_pc' = "exited"
    /\ cli_argv' = argv
    /\ cli_exit' = main_exit(argv)

\* the shell is ready for the next command
CliDone ==
    /\ cli_pc = "exited"
    /\ cli_pc' = "idle"
    /\ cli_argv' = NoCommandLine
    /\ cli_exit' = [status |-> 0, printed |-> "none"]

\* ------------------------------------------------------------------------
\* Session runner: run_full_session.py execute_commands_from_excel
\* ------------------------------------------------------------------------

\* a plan holds at most this many commands
MaxCommands == 3

\* the command lines a plan may hold, and the column "Command" of the Excel file
CommandLinesOfPlan == {"python run_trial.py -v 30", "python run_trial.py -v 50"}

Plans == UNION {[1..k -> CommandLinesOfPlan] : k \in 0..MaxCommands}

\* the exit codes a command may return
ReturnCodes == {0, 1, 2}

stops_never(returncode) == FALSE

\* if process.returncode != 0: ... break
stops(returncode) == returncode # 0

VARIABLES
    sess_pc,    \* "idle", "running" (in subprocess.run), "waiting" (in input()),
                \* "returned" or "raised"
    commands,   \* df["Command"].tolist()
    idx,        \* the position in commands of the command of this iteration
    sess_log    \* what happened so far, in order: a command was started, a
                \* command returned a code, the operator pressed Enter

sessVars == <<sess_pc, commands, idx, sess_log>>

InitSession ==
    /\ sess_pc = "idle"
    /\ commands = << >>
    /\ idx = 0
    /\ sess_log = << >>

Started(k, line) == [event |-> "started", command |-> k, line |-> line, returncode |-> 0]

Exit(k, returncode) ==
    [event |-> "returned", command |-> k, line |-> "", returncode |-> returncode]

Confirmed(k) == [event |-> "confirmed", command |-> k, line |-> "", returncode |-> 0]

\* execute_commands_from_excel(excel_file) up to the first subprocess.run
ReadPlan(has_column, plan) ==
    /\ sess_pc = "idle"
    /\ IF ~has_column
       THEN /\ sess_pc' = "raised"
            /\ UNCHANGED <<commands, idx, sess_log>>
       ELSE /\ commands' = plan
            /\ IF plan = << >>
               THEN /\ sess_pc' = "returned"
                    /\ UNCHANGED <<idx, sess_log>>
               ELSE /\ sess_pc' = "running"
                    /\ idx' = 1
                    /\ sess_log' = Append(sess_log, Started(1, plan[1]))

\* subprocess.run returns: the test of the exit code, then break or input()
ProcessReturns(returncode) ==
    /\ sess_pc = "running"
    /\ sess_log' = Append(sess_log, Exit(idx, returncode))
    /\ sess_pc' = IF stops(returncode) THEN "returned" ELSE "waiting"
    /\ UNCHANGED <<commands, idx>>

\* the operator presses Enter: input() returns and the loop goes on
Enter ==
    /\ sess_pc = "waiting"
    /\ IF idx + 1 > Len(commands)
       THEN /\ sess_pc' = "returned"
            /\ sess_log' = Append(sess_log, Confirmed(idx))
            /\ UNCHANGED idx
       ELSE /\ sess_pc' = "running"
            /\ idx' = idx + 1
            /\ sess_log' = Append(Append(sess_log, Confirmed(idx)),
                                   Started(idx + 1, commands[idx + 1]))
    /\ UNCHANGED commands

\* the operator presses CTRL+C: KeyboardInterrupt ends the script
Interrupt ==
    /\ sess_pc \in {"running", "waiting"}
    /\ sess_pc' = "raised"
    /\ UNCHANGED <<commands, idx, sess_log>>

\* ------------------------------------------------------------------------
\* Experiment 2, one trial: analyze_exp2_log.py compute_trial_exp2 and the
\* trial loop of insert_crossing_experiment_data_to_mysql.py
\*
\* A trial is the rows of peds.csv merged with cars.csv on Time (every Time
\* is in both files and no cell is missing, so the inner merge and dropna
\* keep every row).  Crossing is counted in tenths (10 is the value 1),
\* X_cars and the pedestrian position in centimetres, and a distance in
\* metres in hundredths: both programs divide the same difference by 100.
\* ------------------------------------------------------------------------

\* a trial holds at most this many merged rows
MaxSamples == 4

\* the values Crossing takes in peds.csv: 0, 0.5, 0.7 and 1
CrossingLevels == {0, 5, 7, 10}

\* pos_map / pos with the standard position 1: the pedestrian's X, by index
pos_map == <<14343, 3665, 13317>>

PosIndexes == {0, 1, 2}

\* X_cars of row i: 0 while the car is not spawned (the first `hidden` rows),
\* then the car drives towards the pedestrian of position 0 and past them
car_x(i, hidden) == IF i <= hidden THEN 0 ELSE 15093 - 200 * i

TrialRows ==
    UNION {{[i \in 1..n |-> [Time |-> i, Crossing |-> c[i], X_cars |-> car_x(i, hidden)]] :
               c \in [1..n -> CrossingLevels], hidden \in {0, 1}} : n \in 0..MaxSamples}

\* df[df['X_cars'] != 0] : the rows where the car is visible
visible(rows) == SelectSeq(rows, LAMBDA r : r.X_cars # 0)

\* Python's round() of a value in [0, 1]: to the nearest, a half to the even 0
round_py(x) == IF x > 5 THEN 10 ELSE 0

\* _round_keep01, then clip(0, 1); the loader's lambda gives the same values
round_keep01(x) == IF x \in {0, 10} THEN x ELSE round_py(x)

\* the positions of rows whose Crossing is exactly 1
idx1(rows) == {i \in 1..Len(rows) : rows[i].Crossing = 10}

first_one(rows) == CHOOSE i \in idx1(rows) : \A j \in idx1(rows) : i <= j

\* make_crossing_binary(df): the rows before the first exact 1 become 1, the
\* others are rounded
make_crossing_binary(rows) ==
    [i \in 1..Len(rows) |->
        IF idx1(rows) # {} /\ i < first_one(rows)
        THEN 10
        ELSE round_keep01(rows[i].Crossing)]

\* a safety distance: NaN, or a number of hundredths of a metre
NoDistance == [nan |-> TRUE, hundredths |-> 0]

Distance(h) == [nan |-> FALSE, hundredths |-> h]

\* gap_m of a row, in hundredths: (X_cars - ped_x) / 100.0
gap_m(row, ped_x) == row.X_cars - ped_x

\* the loop of compute_trial_exp2 from row i on, with start_idx found or not:
\* the stop_idx it ends with (0: None)
RECURSIVE stop_idx_from(_, _, _)
stop_idx_from(cross, i, started) ==
    IF i > Len(cross) - 1
    THEN 0
    ELSE IF ~started /\ cross[i] = 0 /\ cross[i + 1] = 10
         THEN stop_idx_from(cross, i + 1, TRUE)
         ELSE IF started /\ cross[i] = 10 /\ cross[i + 1] = 0
              THEN i
              ELSE stop_idx_from(cross, i + 1, started)

compute_trial_exp2(rows, pos_index) ==
    LET frame2 == visible(rows)
        cross == make_crossing_binary(frame2)
        ped_x == pos_map[pos_index + 1]
        stop_idx == stop_idx_from(cross, 1, FALSE)
    IN  IF frame2 = << >>
        THEN [ok |-> FALSE, safety_distance_m |-> NoDistance, series_cross |-> << >>]
        ELSE [ok |-> TRUE,
              safety_distance_m |->
                  IF stop_idx # 0
                  THEN Distance(Abs(gap_m(frame2[stop_idx + 1], ped_x)))
                  ELSE NoDistance,
              series_cross |-> cross]

\* the loader's detection loop from row i on: what it has found so far is
\* [start, stop : BOOLEAN, stop_crossing : X_cars of the row before the fall]
RECURSIVE transitions_from(_, _, _, _)
transitions_from(frame2, cross, i, found) ==
    IF i > Len(cross) - 1 \/ (found.start /\ found.stop)
    THEN found
    ELSE IF cross[i] = 0 /\ cross[i + 1] = 10
         THEN transitions_from(frame2, cross, i + 1, [found EXCEPT !.start = TRUE])
         ELSE IF cross[i] = 10 /\ cross[i + 1] = 0
              THEN transitions_from(frame2, cross, i + 1,
                       [found EXCEPT !.stop = TRUE, !.stop_crossing = frame2[i].X_cars])
              ELSE transitions_from(frame2, cross, i + 1, found)

\* one iteration of the loader's loop over the trials: the value it leaves in
\* safety_distance_values, or the IndexError of index[0] without an exact 1
insert_crossing_trial(rows, pos_index) ==
    LET frame2 == visible(rows)
        cross == make_crossing_binary(frame2)
        ped_x == pos_map[pos_index + 1]
        found == transitions_from(frame2, cross, 1,
                     [start |-> FALSE, stop |-> FALSE, stop_crossing |-> 0])
    IN  IF idx1(frame2) = {}
        THEN [raised |-> "IndexError", safety_distance |-> NoDistance]
        ELSE [raised |-> "none",
              safety_distance |->
                  IF found.stop
                  THEN Distance(Abs(found.stop_crossing - ped_x))
                  ELSE NoDistance]

VARIABLES
    exp2_pc,        \* "idle", "analysed" (compute_trial_exp2 returned) or
                    \* "inserted" (the loader has processed the same trial)
    exp2_rows,      \* the merged rows of the trial
    exp2_pos,       \* the trial's position index in the plan
    exp2_analysis,  \* what compute_trial_exp2 returned
    exp2_loader     \* what the loader's iteration left

exp2Vars == <<exp2_pc, exp2_rows, exp2_pos, exp2_analysis, exp2_loader>>

NoAnalysis == [ok |-> FALSE, safety_distance_m |-> NoDistance, series_cross |-> << >>]

NoInsert == [raised |-> "none", safety_distance |-> NoDistance]

InitExp2 ==
    /\ exp2_pc = "idle"
    /\ exp2_rows = << >>
    /\ exp2_pos = 0
    /\ exp2_analysis = NoAnalysis
    /\ exp2_loader = NoInsert

\* the analysis processes the logs of a trial
ComputeTrialExp2(rows, pos_index) ==
    /\ exp2_pc = "idle"
    /\ exp2_pc' = "analysed"
    /\ exp2_rows' = rows
    /\ exp2_pos' = pos_index
    /\ exp2_analysis' = compute_trial_exp2(rows, pos_index)
    /\ UNCHANGED exp2_loader

\* the database loader processes the same logs
InsertCrossingTrial ==
    /\ exp2_pc = "analysed"
    /\ exp2_pc' = "inserted"
    /\ exp2_loader' = insert_crossing_trial(exp2_rows, exp2_pos)
    /\ UNCHANGED <<exp2_rows, exp2_pos, exp2_analysis>>

\* ------------------------------------------------------------------------
\* Weather annotator: annotate_weather_gui.py, class Annotator and run_single
\*
\* Of the CSV only the weather column is followed: one cell per row, "nan"
\* for an empty cell.  A CSV without a weather column reads as all "nan"
\* (Annotator.__init__ adds the column), and to_csv followed by read_csv
\* gives the cells back as they were.
\* ------------------------------------------------------------------------

\* a CSV holds at most this many rows
MaxRows == 3

\* a session takes at most this many user actions before the window is closed
MaxActions == 3

\* the sessions observed on one CSV
MaxSessions == 2

\* the values of --autosave-every
AutosaveValues == {0, 1, 2}

\* the labels of the buttons Clear and Rain, and of the keys c and r (Night
\* and n run the same code with another label)
AnnotationLabels == {"clear", "rain"}

NoCsv == [exists |-> FALSE, weather |-> << >>]

Csv(cells) == [exists |-> TRUE, weather |-> cells]

\* the CSV given to --csv before any session: n rows, no weather label
FreshCsv(n) == Csv([r \in 1..n |-> "nan"])

\* make_output_path(csv_path, inplace): which file save() writes
make_output_path(in_place) == IF in_place THEN "csv_path" ELSE "csv_path_weather"

\* np.where(self.df["weather"].isna())[0]
nan_positions(cells) == {r \in 1..Len(cells) : cells[r] = "nan"}

\* self.i after __init__, counted from 0 as the code does
initial_i(cells) ==
    IF nan_positions(cells) # {}
    THEN (CHOOSE r \in nan_positions(cells) : \A q \in nan_positions(cells) : r <= q) - 1
    ELSE 0

clamp_none(n, target) == target

\* max(0, min(len(self.indices) - 1, self.i + delta))
clamp(n, target) ==
    LET upper == IF n - 1 < target THEN n - 1 ELSE target
    IN  IF upper < 0 THEN 0 ELSE upper

\* self.autosave_every and (self.i % self.autosave_every == 0)
autosaves(every, i) == every # 0 /\ i % every = 0

VARIABLES
    ann_pc,         \* "closed" (no window), "open" (in plt.show) or "raised"
    csv_file,       \* the file at csv_path
    weather_file,   \* the file <stem>_weather.csv next to it
    inplace,        \* --inplace
    autosave_every, \* self.autosave_every
    ann_df,         \* self.df, its weather column
    ann_i,          \* self.i
    ann_log,        \* the user's actions of this session, in order, each with
                    \* whether it wrote the output file
    ann_sessions,   \* sessions opened on the CSV so far
    ann_closed      \* the weather column as each closed session left it, in order

annVars == <<ann_pc, csv_file, weather_file, inplace, autosave_every, ann_df, ann_i,
             ann_log, ann_sessions, ann_closed>>

InitAnnotator ==
    /\ ann_pc = "closed"
    /\ csv_file = NoCsv
    /\ weather_file = NoCsv
    /\ inplace = FALSE
    /\ autosave_every = 0
    /\ ann_df = << >>
    /\ ann_i = 0
    /\ ann_log = << >>
    /\ ann_sessions = 0
    /\ ann_closed = << >>

\* Annotator.__init__ on the file at csv_path: read_csv, the pointer, refresh()
AnnotatorInit(cells) ==
    /\ ann_df' = cells
    /\ ann_i' = initial_i(cells)
    /\ ann_log' = << >>
    /\ ann_sessions' = ann_sessions + 1
    /\ ann_pc' = IF cells = << >> THEN "raised" ELSE "open"

\* run_single on a CSV of n rows never annotated before
OpenSession(n, in_place, every) ==
    /\ ann_pc = "closed"
    /\ ann_sessions = 0
    /\ csv_file' = FreshCsv(n)
    /\ inplace' = in_place
    /\ autosave_every' = IF every < 0 THEN 0 ELSE every
    /\ AnnotatorInit(FreshCsv(n).weather)
    /\ UNCHANGED <<weather_file, ann_closed>>

\* run_single again on the same CSV with the same options
ReopenSession ==
    /\ ann_pc = "closed"
    /\ ann_sessions \in 1..(MaxSessions - 1)
    /\ AnnotatorInit(csv_file.weather)
    /\ UNCHANGED <<csv_file, weather_file, inplace, autosave_every, ann_closed>>

\* Annotator.save: self.df.to_csv(out_path), as a pair of new file contents
saved_files(cells) ==
    IF make_output_path(inplace) = "csv_path"
    THEN <<Csv(cells), weather_file>>
    ELSE <<csv_file, Csv(cells)>>

Event(action, saved) == [action |-> action, saved |-> saved]

\* set_weather_and_next(label): a button Clear/Rain/Night or a key c/r/n
SetWeatherAndNext(label) ==
    /\ ann_pc = "open"
    /\ Len(ann_log) < MaxActions
    /\ LET cells == [ann_df EXCEPT ![ann_i + 1] = label]
           saves == autosaves(autosave_every, ann_i)
       IN  /\ ann_df' = cells
           /\ csv_file' = IF saves THEN saved_files(cells)[1] ELSE csv_file
           /\ weather_file' = IF saves THEN saved_files(cells)[2] ELSE weather_file
           /\ ann_log' = Append(ann_log, Event("annotate", saves))
    /\ ann_i' = clamp(Len(ann_df), ann_i + 1)
    /\ UNCHANGED <<ann_pc, inplace, autosave_every, ann_sessions, ann_closed>>

\* move(delta): the buttons Prev and Next, the arrow and page keys
Move(delta) ==
    /\ ann_pc = "open"
    /\ Len(ann_log) < MaxActions
    /\ ann_i' = clamp(Len(ann_df), ann_i + delta)
    /\ ann_log' = Append(ann_log, Event(IF delta > 0 THEN "next" ELSE "previous", FALSE))
    /\ UNCHANGED <<ann_pc, csv_file, weather_file, inplace, autosave_every, ann_df,
                   ann_sessions, ann_closed>>

\* skip(): the button Skip
Skip ==
    /\ ann_pc = "open"
    /\ Len(ann_log) < MaxActions
    /\ ann_i' = clamp(Len(ann_df), ann_i + 1)
    /\ ann_log' = Append(ann_log, Event("skip", FALSE))
    /\ UNCHANGED <<ann_pc, csv_file, weather_file, inplace, autosave_every, ann_df,
                   ann_sessions, ann_closed>>

\* the key s: save(progress_only=True)
SaveKey ==
    /\ ann_pc = "open"
    /\ Len(ann_log) < MaxActions
    /\ csv_file' = saved_files(ann_df)[1]
    /\ weather_file' = saved_files(ann_df)[2]
    /\ ann_log' = Append(ann_log, Event("save", TRUE))
    /\ UNCHANGED <<ann_pc, inplace, autosave_every, ann_df, ann_i, ann_sessions, ann_closed>>

\* the window is closed (by the user, or by save_and_quit, which saves the
\* same frame first): plt.show() returns and run_single saves
CloseSession ==
    /\ ann_pc = "open"
    /\ ann_pc' = "closed"
    /\ csv_file' = saved_files(ann_df)[1]
    /\ weather_file' = saved_files(ann_df)[2]
    /\ ann_closed' = Append(ann_closed, ann_df)
    /\ UNCHANGED <<inplace, autosave_every, ann_df, ann_i, ann_log, ann_sessions>>

\* ------------------------------------------------------------------------
\* Participant plans: generate_participant_plan_exp1.py and
\* generate_participant_plan_exp2.py
\* ------------------------------------------------------------------------

group1 == <<20, 40, 60>>

group2 == <<30, 50, 70>>

\* exp2: groups
groups == {group1, group2}

\* weather, in the order of the dictionary: the label with its flags
\* rain, cloud, light
weather_list ==
    << [weather_type |-> "clear", rain |-> FALSE, cloud |-> FALSE, light |-> FALSE],
       [weather_type |-> "night", rain |-> FALSE, cloud |-> FALSE, light |-> TRUE],
       [weather_type |-> "rain",  rain |-> TRUE,  cloud |-> TRUE,  light |-> FALSE] >>

\* pos
positions == <<0, 1, 2>>

\* generate_all_combinations()
generate_all_combinations ==
    {[velocity_group |-> vg, distance_group |-> dg] : vg \in {group1, group2}, dg \in {group1, group2}}

\* the participants whose files are followed
ParticipantIds == {1, 2}

\* one row of the Excel file; the command line is given by its options
\* (-d is 0 where the command has no -d), the flags by the weather
Trial(participant_id, position, velocity_kmh, distance_m, w) ==
    [Participant |-> participant_id, Position |-> position, Velocity |-> velocity_kmh,
     Distance |-> distance_m, Weather |-> w.weather_type,
     Rain |-> w.rain, Cloud |-> w.cloud, Light |-> w.light,
     Command |-> [v |-> velocity_kmh, d |-> distance_m, pos |-> position,
                  r |-> w.rain, c |-> w.cloud, l |-> w.light]]

\* exp1 generate_commands_for_participant: the loops over velocity, distance
\* and weather, with the position random.randint(0, 2) returned
commands_exp1(participant_id, velocity_group, distance_group, position) ==
    [k \in 1..(Len(velocity_group) * Len(distance_group) * Len(weather_list)) |->
        Trial(participant_id, position,
              velocity_group[((k - 1) \div (Len(distance_group) * Len(weather_list))) + 1],
              distance_group[(((k - 1) \div Len(weather_list)) % Len(distance_group)) + 1],
              weather_list[((k - 1) % Len(weather_list)) + 1])]

\* exp2 generate_commands_for_participant before the shuffle: the loops over
\* velocity, weather and position, with the group random.choice returned
commands_exp2(participant_id, group) ==
    [k \in 1..(Len(group) * Len(weather_list) * Len(positions)) |->
        Trial(participant_id,
              positions[((k - 1) % Len(positions)) + 1],
              group[((k - 1) \div (Len(weather_list) * Len(positions))) + 1],
              0,
              weather_list[(((k - 1) \div Len(positions)) % Len(weather_list)) + 1])]

\* the orders a shuffle of n rows may produce: every rotation of the rows,
\* forwards and backwards (a family of the n! equally possible orders)
Orders(n) ==
    {[i \in 1..n |-> ((i - 1 + k) % n) + 1] : k \in 0..(n - 1)}
        \cup {[i \in 1..n |-> ((n - i + k) % n) + 1] : k \in 0..(n - 1)}

\* rows drawn with replacement: the first row comes twice
shuffled_replace(rows, order) ==
    [i \in 1..Len(rows) |-> IF i = 1 THEN rows[order[2]] ELSE rows[order[i]]]

\* df.sample(frac=1).reset_index(drop=True) and random.shuffle(commands): the
\* rows in the order drawn
shuffled(rows, order) == [i \in 1..Len(rows) |-> rows[order[i]]]

VARIABLES
    plan_pc,      \* "idle" or "written" (the Excel file of a participant exists)
    plan_exp,     \* the experiment of the file, 1 or 2 (0: none)
    plan_groups,  \* the velocity and distance groups the participant was given
    plan_rows     \* the rows of the file, in order

planVars == <<plan_pc, plan_exp, plan_groups, plan_rows>>

InitPlan ==
    /\ plan_pc = "idle"
    /\ plan_exp = 0
    /\ plan_groups = [velocity_group |-> << >>, distance_group |-> << >>]
    /\ plan_rows = << >>

\* exp1, one iteration of the loop of generate_files_for_participants
GenerateFileExp1(participant_id, combination, position, order) ==
    /\ plan_pc = "idle"
    /\ plan_pc' = "written"
    /\ plan_exp' = 1
    /\ plan_groups' = combination
    /\ plan_rows' = shuffled(commands_exp1(participant_id, combination.velocity_group,
                                           combination.distance_group, position), order)

\* exp2, one iteration of the loop over participants
GenerateFileExp2(participant_id, group, order) ==
    /\ plan_pc = "idle"
    /\ plan_pc' = "written"
    /\ plan_exp' = 2
    /\ plan_groups' = [velocity_group |-> group, distance_group |-> << >>]
    /\ plan_rows' = shuffled(commands_exp2(participant_id, group), order)


\* ------------------------------------------------------------------------
\* Evaluation on the test split: train.py predict_final_one, given the
\* coefficients, multipliers and biases the decision function holds
\* ------------------------------------------------------------------------

pred_final_of_one_sigma(pred_weather, sigma, mu) == NAdd(NSub(pred_weather, sigma), mu)

\* pred_final = pred_weather - 2*sigma + mu
pred_final_of(pred_weather, sigma, mu) == NAdd(NSub(pred_weather, NMul(Num(2), sigma)), mu)

NoPrediction == [raised |-> "none", no_bias |-> Unset, final |-> Unset]

predict_final_one(w, h, velocity_exp2, coefs, intercept_mean, alphas, bias) ==
    IF w \notin DOMAIN alphas
    THEN [NoPrediction EXCEPT !.raised = "ValueError"]
    ELSE LET a == coefs[1]
             b == coefs[2]
             c == coefs[3]
             base_pred == NAdd(NAdd(NAdd(NMul(a, h), NMul(b, NMul(h, h))),
                                    NMul(c, velocity_exp2)), intercept_mean)
             pred_weather == NMul(alphas[w], base_pred)
         IN  [raised |-> "none",
              no_bias |-> pred_weather,
              final |-> pred_final_of(pred_weather, bias[w].sigma, bias[w].mu)]

\* bias_v2 with the values the decision function holds as stds and mes
bias_of_model == [w \in DOMAIN alphas_mean |-> [mu |-> mes[w], sigma |-> stds[w]]]

VARIABLES
    pred_pc,     \* "idle" or "predicted"
    prediction   \* what predict_final_one returned

predVars == <<pred_pc, prediction>>

InitPrediction ==
    /\ pred_pc = "idle"
    /\ prediction = NoPrediction

\* predict_final_one on the row (weather, height, velocity) the decision
\* function was last called with
PredictFinalOne ==
    /\ pc = "returned"
    /\ pred_pc = "idle"
    /\ pred_pc' = "predicted"
    /\ prediction' = predict_final_one(
                         weather, height, velocity,
                         <<coefs_mean.height, coefs_mean.height2, coefs_mean.velocity>>,
                         coefs_mean.intercept, alphas_mean, bias_of_model)

\* ------------------------------------------------------------------------
\* Experiment 1: analyze_exp1_log.py disappearance_time
\*
\* Time is in whole seconds from 0, one sample per second, and X_pos in
\* whole centimetres, so that |x| > eps = 1e-6 is x # 0 and the tolerance
\* 1e-6 of the head filter changes nothing.
\* ------------------------------------------------------------------------

\* a signal holds at most this many samples
MaxTrace == 5

XValues == {0, -3, 5}

Signals == UNION {[1..n -> XValues] : n \in 1..MaxTrace}

HoldValues == {0, 1, 2, 3}

IgnoreValues == {0, 2}

\* the time of the k-th sample
time_of(k) == k - 1

\* mask = t >= tmin + ignore_first_seconds - 1e-6, or every sample when fewer
\* than 2 pass: the positions kept, in order
kept_positions(x, ignore_first_seconds) ==
    LET passing == {k \in 1..Len(x) : time_of(k) >= time_of(1) + ignore_first_seconds}
    IN  IF Cardinality(passing) < 2 THEN 1..Len(x) ELSE passing

\* x[mask]: the kept samples, as [pos, x] in order
RECURSIVE masked(_, _, _)
masked(x, keep, k) ==
    IF k > Len(x) THEN << >>
    ELSE IF k \in keep
         THEN <<[pos |-> k, x |-> x[k]]>> \o masked(x, keep, k + 1)
         ELSE masked(x, keep, k + 1)

\* the window reduced to the first zero sample
window_end_one(i1, hold, n) == i1 + 1

\* i2 = min(i1 + hold, len(x2)), as the position after the last sample tested
window_end(i1, hold, n) == IF i1 + hold < n + 1 THEN i1 + hold ELSE n + 1

\* np.argmin(np.abs(x2)): the first position of the smallest |x|
argmin_abs(x2) ==
    CHOOSE j \in 1..Len(x2) :
        /\ \A k \in 1..Len(x2) : Abs(x2[j].x) <= Abs(x2[k].x)
        /\ \A k \in 1..(j - 1) : Abs(x2[k].x) > Abs(x2[j].x)

\* the loop over trans from transition i on: the position i1 returned, or 0
RECURSIVE first_held(_, _, _)
first_held(x2, hold, i) ==
    IF i > Len(x2) - 1 THEN 0
    ELSE IF x2[i].x # 0 /\ x2[i + 1].x = 0
            /\ \A k \in (i + 1)..(window_end(i + 1, hold, Len(x2)) - 1) : x2[k].x = 0
         THEN i + 1
         ELSE first_held(x2, hold, i + 1)

disappearance_time(x, ignore_first_seconds, hold) ==
    LET x2 == masked(x, kept_positions(x, ignore_first_seconds), 1)
        i1 == first_held(x2, hold, 1)
    IN  IF i1 # 0 THEN time_of(x2[i1].pos) ELSE time_of(x2[argmin_abs(x2)].pos)

VARIABLES
    dis_pc,      \* "idle" or "returned"
    dis_x,       \* the X_pos signal given
    dis_ignore,  \* ignore_first_seconds
    dis_hold,    \* hold
    dis_time     \* the time returned

disVars == <<dis_pc, dis_x, dis_ignore, dis_hold, dis_time>>

InitDisappearance ==
    /\ dis_pc = "idle"
    /\ dis_x = << >>
    /\ dis_ignore = 0
    /\ dis_hold = 0
    /\ dis_time = 0

DisappearanceTime(x, ignore_first_seconds, hold) ==
    /\ dis_pc = "idle"
    /\ dis_pc' = "returned"
    /\ dis_x' = x
    /\ dis_ignore' = ignore_first_seconds
    /\ dis_hold' = hold
    /\ dis_time' = disappearance_time(x, ignore_first_seconds, hold)

\* ------------------------------------------------------------------------
\* A CARLA trial: run_trial.py main, from the connection to the cleanup
\* ------------------------------------------------------------------------

\* the loop of a trial is followed for at most this many ticks
MaxTicks == 3

\* the three spawn commands of the batch, in order: the autopiloted vehicle,
\* the weather decor, the player; the actor id the server gives to each
BatchActors == <<1, 2, 3>>

\* results of apply_batch_sync: for each command whether it failed
BatchErrors == [1..Len(BatchActors) -> BOOLEAN]

\* response.actor_id: the id of the actor created, 0 with an error
actor_id(errors, k) == IF errors[k] THEN 0 ELSE BatchActors[k]

\* the actors the batch created in the world
created_by(errors) == {BatchActors[k] : k \in {j \in 1..Len(BatchActors) : ~errors[j]}}

\* -dis: negative (no disappearance point) or a distance
DisappearValues == {-1, 5}

VARIABLES
    trial_pc,       \* "start", "driving" (in the while loop), "finally" or "ended"
    disappear,      \* args.disappear
    results,        \* the errors apply_batch_sync returned, << >> before it
    vehicles_list,  \* vehicles_list
    world_actors,   \* the actors of this trial that are in the world
    destroy_sent,   \* the ids a DestroyActor command was issued for
    trial_exit,     \* how the try block was left: "none", "destination",
                    \* "disappeared", "exception" or "interrupt"
    ticks           \* iterations of the loop so far

trialVars == <<trial_pc, disappear, results, vehicles_list, world_actors, destroy_sent,
               trial_exit, ticks>>

InitTrial ==
    /\ trial_pc = "start"
    /\ disappear = -1
    /\ results = << >>
    /\ vehicles_list = << >>
    /\ world_actors = {}
    /\ destroy_sent = {}
    /\ trial_exit = "none"
    /\ ticks = 0

\* the try block up to the loop, when the server answers: the batch is
\* applied, and with an error on the vehicle nothing is recorded and
\* BasicAgent(vehicle) raises on the unassigned name
SpawnBatch(dis, errors) ==
    /\ trial_pc = "start"
    /\ results = << >>
    /\ disappear' = dis
    /\ results' = errors
    /\ world_actors' = created_by(errors)
    /\ IF errors[1]
       THEN /\ vehicles_list' = << >>
            /\ trial_pc' = "finally"
            /\ trial_exit' = "exception"
       ELSE /\ vehicles_list' = <<actor_id(errors, 1), actor_id(errors, 2), actor_id(errors, 3)>>
            /\ trial_pc' = "driving"
            /\ trial_exit' = "none"
    /\ UNCHANGED <<destroy_sent, ticks>>

\* the try block raises before the batch (no server, no blueprint)
SetupRaises(dis) ==
    /\ trial_pc = "start"
    /\ results = << >>
    /\ disappear' = dis
    /\ trial_pc' = "finally"
    /\ trial_exit' = "exception"
    /\ UNCHANGED <<results, vehicles_list, world_actors, destroy_sent, ticks>>

\* one iteration of the while loop: the agent is done, the disappearance
\* point is reached, a call raises, or the loop goes on
LoopIteration(outcome) ==
    /\ trial_pc = "driving"
    /\ outcome = "disappeared" => disappear >= 0
    /\ outcome = "continue" => ticks < MaxTicks
    /\ ticks' = IF ticks < MaxTicks THEN ticks + 1 ELSE ticks
    /\ trial_pc' = IF outcome = "continue" THEN "driving" ELSE "finally"
    /\ trial_exit' = IF outcome = "continue" THEN "none" ELSE outcome
    /\ UNCHANGED <<disappear, results, vehicles_list, world_actors, destroy_sent>>

\* Ctrl+C while the loop runs
KeyboardInterrupt ==
    /\ trial_pc = "driving"
    /\ trial_pc' = "finally"
    /\ trial_exit' = "interrupt"
    /\ UNCHANGED <<disappear, results, vehicles_list, world_actors, destroy_sent, ticks>>

\* the finally block: a DestroyActor for every id of vehicles_list
Cleanup ==
    /\ trial_pc = "finally"
    /\ trial_pc' = "ended"
    /\ destroy_sent' = {vehicles_list[k] : k \in 1..Len(vehicles_list)}
    /\ world_actors' = world_actors \ {vehicles_list[k] : k \in 1..Len(vehicles_list)}
    /\ UNCHANGED <<disappear, results, vehicles_list, trial_exit, ticks>>

\* ------------------------------------------------------------------------
\* Specifications
\* ------------------------------------------------------------------------

vars ==
    <<decVars, calVars, ordVars, loadVars, cvVars, cliVars, sessVars, exp2Vars,
      annVars, planVars, predVars, disVars, trialVars>>

\* what a step of one part of the program leaves alone
notDecVars ==
    <<calVars, ordVars, loadVars, cvVars, cliVars, sessVars, exp2Vars, annVars,
      planVars, predVars, disVars, trialVars>>

notCalVars ==
    <<decVars, ordVars, loadVars, cvVars, cliVars, sessVars, exp2Vars, annVars,
      planVars, predVars, disVars, trialVars>>

notOrdVars ==
    <<decVars, calVars, loadVars, cvVars, cliVars, sessVars, exp2Vars, annVars,
      planVars, predVars, disVars, trialVars>>

notLoadVars ==
    <<decVars, calVars, ordVars, cvVars, cliVars, sessVars, exp2Vars, annVars,
      planVars, predVars, disVars, trialVars>>

notCvVars ==
    <<decVars, calVars, ordVars, loadVars, cliVars, sessVars, exp2Vars, annVars,
      planVars, predVars, disVars, trialVars>>

notCliVars ==
    <<decVars, calVars, ordVars, loadVars, cvVars, sessVars, exp2Vars, annVars,
      planVars, predVars, disVars, trialVars>>

notSessVars ==
    <<decVars, calVars, ordVars, loadVars, cvVars, cliVars, exp2Vars, annVars,
      planVars, predVars, disVars, trialVars>>

notExp2Vars ==
    <<decVars, calVars, ordVars, loadVars, cvVars, cliVars, sessVars, annVars,
      planVars, predVars, disVars, trialVars>>

notAnnVars ==
    <<decVars, calVars, ordVars, loadVars, cvVars, cliVars, sessVars, exp2Vars,
      planVars, predVars, disVars, trialVars>>

notPlanVars ==
    <<decVars, calVars, ordVars, loadVars, cvVars, cliVars, sessVars, exp2Vars,
      annVars, predVars, disVars, trialVars>>

notPredVars ==
    <<decVars, calVars, ordVars, loadVars, cvVars, cliVars, sessVars, exp2Vars,
      annVars, planVars, disVars, trialVars>>

notDisVars ==
    <<decVars, calVars, ordVars, loadVars, cvVars, cliVars, sessVars, exp2Vars,
      annVars, planVars, predVars, trialVars>>

notTrialVars ==
    <<decVars, calVars, ordVars, loadVars, cvVars, cliVars, sessVars, exp2Vars,
      annVars, planVars, predVars, disVars>>

Init ==
    /\ InitDecision /\ InitCalibration /\ InitRuns /\ InitLoad /\ InitKFold
    /\ InitCli /\ InitSession /\ InitExp2 /\ InitAnnotator
    /\ InitPlan /\ InitPrediction /\ InitDisappearance
    /\ InitTrial

\* the decision function and its callers
Decide == CallAny /\ UNCHANGED notDecVars

Returned == Return /\ UNCHANGED notDecVars

Next == Decide \/ Returned

Spec == Init /\ [][Next]_vars

\* decisions observed before and after a calibration run: the scenario of the
\* specification for each trained weather, in every threshold variant
DecideBetweenRuns ==
    /\ cal_pc \in {"idle", "exported"}
    /\ \E w \in DOMAIN alphas_mean, u \in Variants : Call(w, Num(175), Num(50), Num(40), u)
    /\ UNCHANGED notDecVars

RunStart == (\E f \in Folders : StartRun(f)) /\ UNCHANGED notCalVars

RunLoadAndPrepare == LoadAndPrepare /\ UNCHANGED notCalVars

RunSplitGlobal == SplitGlobal /\ UNCHANGED notCalVars

RunCrossValidationEnter == CrossValidationEnter /\ UNCHANGED notCalVars

RunFold == Fold /\ UNCHANGED notCalVars

RunCrossValidationReturn == CrossValidationReturn /\ UNCHANGED notCalVars

RunBiasStep == BiasStep /\ UNCHANGED notCalVars

RunEvaluate == Evaluate /\ UNCHANGED notCalVars

RunExport == Export /\ UNCHANGED notCalVars

NextPipeline ==
    \/ RunStart
    \/ RunLoadAndPrepare
    \/ RunSplitGlobal
    \/ RunCrossValidationEnter
    \/ RunFold
    \/ RunCrossValidationReturn
    \/ RunBiasStep
    \/ RunEvaluate
    \/ RunExport
    \/ DecideBetweenRuns
    \/ Returned

SpecPipeline == Init /\ [][NextPipeline]_vars

\* runs of main() on one folder, the files enumerated in any order
Run ==
    /\ Len(run_log) < MaxRuns
    /\ \E f \in (IF run_log = << >> THEN Folders ELSE {processed_folder}), now \in Clock :
           \E l \in Listings(f) : MainRun(f, l, now)
    /\ UNCHANGED notOrdVars

NextRuns == Run

SpecRuns == Init /\ [][NextRuns]_vars

\* loading and preparing the files of a folder
Load == (\E files \in CsvFolders : LoadCsvFiles(files)) /\ UNCHANGED notLoadVars

Prepare == (\E limit \in Limits : PrepareData(limit)) /\ UNCHANGED notLoadVars

NextLoad == Load \/ Prepare

SpecLoad == Init /\ [][NextLoad]_vars

\* cross-validation on a train split
CvStart == (\E train \in KFoldTrains : KFoldStart(train)) /\ UNCHANGED notCvVars

CvFold == KFoldIteration /\ UNCHANGED notCvVars

CvMeans == KFoldMeans /\ UNCHANGED notCvVars

NextCv == CvStart \/ CvFold \/ CvMeans

SpecCv == Init /\ [][NextCv]_vars

\* runs of the command line program
Command == (\E argv \in CommandLines : CliRun(argv)) /\ UNCHANGED notCliVars

Exited == CliDone /\ UNCHANGED notCliVars

NextCli == Command \/ Exited

SpecCli == Init /\ [][NextCli]_vars

\* a session: the script, the commands it runs and the operator
SessionStart ==
    (\E has_column \in BOOLEAN, plan \in Plans : ReadPlan(has_column, plan))
        /\ UNCHANGED notSessVars

SessionProcessReturns ==
    (\E returncode \in ReturnCodes : ProcessReturns(returncode)) /\ UNCHANGED notSessVars

SessionEnter == Enter /\ UNCHANGED notSessVars

SessionInterrupt == Interrupt /\ UNCHANGED notSessVars

NextSession == SessionStart \/ SessionProcessReturns \/ SessionEnter \/ SessionInterrupt

SpecSession == Init /\ [][NextSession]_vars

\* one trial of experiment 2, analysed and then loaded into the database
Analyse ==
    /\ \E rows \in TrialRows, pos_index \in PosIndexes : ComputeTrialExp2(rows, pos_index)
    /\ UNCHANGED notExp2Vars

Insert == InsertCrossingTrial /\ UNCHANGED notExp2Vars

NextExp2 == Analyse \/ Insert

SpecExp2 == Init /\ [][NextExp2]_vars

\* annotation sessions on one CSV
AnnOpen ==
    /\ ann_pc = "closed" /\ ann_sessions = 0
    /\ \E n \in 0..MaxRows, in_place \in BOOLEAN, every \in AutosaveValues :
           OpenSession(n, in_place, every)
    /\ UNCHANGED notAnnVars

AnnReopen == ReopenSession /\ UNCHANGED notAnnVars

AnnAnnotate ==
    /\ \E label \in AnnotationLabels : SetWeatherAndNext(label)
    /\ UNCHANGED notAnnVars

AnnMove == (\E delta \in {-1, 1} : Move(delta)) /\ UNCHANGED notAnnVars

AnnSkip == Skip /\ UNCHANGED notAnnVars

AnnSaveKey == SaveKey /\ UNCHANGED notAnnVars

AnnClose == CloseSession /\ UNCHANGED notAnnVars

NextAnnotator ==
    AnnOpen \/ AnnReopen \/ AnnAnnotate \/ AnnMove \/ AnnSkip \/ AnnSaveKey \/ AnnClose

SpecAnnotator == Init /\ [][NextAnnotator]_vars

\* the plan file of one participant, of either experiment
PlanExp1 ==
    /\ plan_pc = "idle"
    /\ \E participant_id \in ParticipantIds, combination \in generate_all_combinations,
          position \in 0..2, order \in Orders(27) :
           GenerateFileExp1(participant_id, combination, position, order)
    /\ UNCHANGED notPlanVars

PlanExp2 ==
    /\ plan_pc = "idle"
    /\ \E participant_id \in ParticipantIds, group \in groups, order \in Orders(27) :
           GenerateFileExp2(participant_id, group, order)
    /\ UNCHANGED notPlanVars

NextPlan == PlanExp1 \/ PlanExp2

SpecPlan == Init /\ [][NextPlan]_vars

\* a call of the decision function, then predict_final_one on the same row
Predict == PredictFinalOne /\ UNCHANGED notPredVars

NextPredict == Decide \/ Predict

SpecPredict == Init /\ [][NextPredict]_vars

\* one call of disappearance_time
Disappear ==
    /\ dis_pc = "idle"
    /\ \E x \in Signals, ignore_first_seconds \in IgnoreValues, hold \in HoldValues :
           DisappearanceTime(x, ignore_first_seconds, hold)
    /\ UNCHANGED notDisVars

NextDisappearance == Disappear

SpecDisappearance == Init /\ [][NextDisappearance]_vars

\* one run of run_trial.py
TrialSpawn ==
    /\ \E dis \in DisappearValues, errors \in BatchErrors : SpawnBatch(dis, errors)
    /\ UNCHANGED notTrialVars

TrialSetupRaises == (\E dis \in DisappearValues : SetupRaises(dis)) /\ UNCHANGED notTrialVars

TrialLoop ==
    /\ \E outcome \in {"continue", "destination", "disappeared", "exception"} :
           LoopIteration(outcome)
    /\ UNCHANGED notTrialVars

TrialInterrupt == KeyboardInterrupt /\ UNCHANGED notTrialVars

TrialCleanup == Cleanup /\ UNCHANGED notTrialVars

NextTrial == TrialSpawn \/ TrialSetupRaises \/ TrialLoop \/ TrialInterrupt \/ TrialCleanup

SpecTrial == Init /\ [][NextTrial]_vars

\* ------------------------------------------------------------------------
\* Properties of the decision function
\* ------------------------------------------------------------------------

Trained == DOMAIN alphas_mean

Completed == pc = "returned" /\ frame.raised = "none"

AllFinite == IsFinite(height) /\ IsFinite(velocity) /\ IsFinite(distance)

\* alpha[weather] * (a*h + b*h^2 + c*v + intercept)
T_weather(w, h, v) ==
    NMul(alphas_mean[w],
         NAdd(NAdd(NAdd(NMul(coefs_mean.height, h),
                        NMul(coefs_mean.height2, NMul(h, h))),
                   NMul(coefs_mean.velocity, v)),
              coefs_mean.intercept))

\* alpha[weather] * (a*h + b*h^2 + c*v + intercept) - 2*sigma[weather] + mu[weather]
T_end(w, h, v) == NAdd(NSub(T_weather(w, h, v), NMul(Num(2), stds[w])), mes[w])

Within(x, target, tol) == NLe(NSub(x, target), tol) /\ NLe(NSub(target, x), tol)

C2_DecisionRule ==
    (Completed /\ AllFinite /\ NLt(Num(0), velocity)) =>
        (frame.returned = "True") <=>
            NLe(NMul(frame.threshold, NMul(velocity, Num(1000))),
                NMul(distance, Num(3600)))

C2_Witness ==
    /\ Completed
    /\ AllFinite
    /\ NLt(Num(0), velocity)
    /\ NEq(NMul(frame.threshold, NMul(velocity, Num(1000))), NMul(distance, Num(3600)))
    /\ frame.returned = "True"

\* C3 as stated: for a trained weather and finite height and distance, a call
\* with velocity <= 0 returns True whatever the threshold.
C3_StationaryCrosses ==
    (Completed /\ AllFinite /\ NLe(velocity, Num(0))) => frame.returned = "True"

ScenarioInputs ==
    /\ pc = "returned"
    /\ weather = "clear"
    /\ height = Num(175)
    /\ velocity = Num(50)

C5_ScenarioThresholds ==
    ScenarioInputs =>
        /\ Within(NDiv(frame.predicted_time, alphas_mean["clear"]), Dec(796, -2), Dec(1, -2))
        /\ Within(frame.predicted_time, Dec(827, -2), Dec(1, -2))
        /\ Within(frame.adjusted_time, Dec(631, -2), Dec(1, -2))

\* C5 amended: for clear, 175 cm and 50 km/h, T_pred = 4.55, T_weather = 4.73
\* and adjusted T_end = 2.77, each to within 0.01.
C5_ScenarioThresholdsCode ==
    ScenarioInputs =>
        /\ Within(NDiv(frame.predicted_time, alphas_mean["clear"]), Dec(455, -2), Dec(1, -2))
        /\ Within(frame.predicted_time, Dec(473, -2), Dec(1, -2))
        /\ Within(frame.adjusted_time, Dec(277, -2), Dec(1, -2))

C5_Witness ==
    /\ ScenarioInputs
    /\ variant = "True"
    /\ NEq(frame.predicted_time, Dec(472694045, -8))
    /\ NEq(frame.adjusted_time, Dec(276694045, -8))

\* C6: a call whose weather is not a category of the coefficient set raises an
\* error, returns no decision and has computed no threshold.
C6_UnknownWeatherFails ==
    (pc = "returned" /\ weather \notin Trained) =>
        /\ frame.raised = "ValueError"
        /\ frame.returned = "none"
        /\ frame.predicted_time = Unset
        /\ frame.adjusted_time = Unset
        /\ frame.threshold = Unset

C6_Witness ==
    /\ pc = "returned"
    /\ weather = "fog"
    /\ AllFinite
    /\ frame.raised = "ValueError"

\* C7 as stated: a call with a non-finite height, velocity or distance fails
\* with an error and never returns a boolean decision.
C7_NonFiniteFails ==
    (pc = "returned" /\ ~AllFinite) =>
        frame.raised # "none" /\ frame.returned = "none"

\* C8: with weather, height, velocity and the threshold variant held fixed, a
\* decision True at distance d1 is True at every distance d2 >= d1.
C8_MonotoneInDistance ==
    (Completed /\ IsFinite(distance) /\ frame.returned = "True") =>
        \A d2 \in Distances :
            (IsFinite(d2) /\ NLe(distance, d2)) =>
                pedestrian_behavior_model(
                    weather, height, velocity, d2,
                    IF variant = "omitted" THEN use_adjusted_default ELSE variant = "True"
                ).returned = "True"

C8_Witness ==
    /\ Completed
    /\ AllFinite
    /\ NLe(velocity, Num(0))
    /\ frame.returned = "True"
    /\ \E d2 \in Distances : IsFinite(d2) /\ NLt(distance, d2)

\* ------------------------------------------------------------------------
\* Properties of the calibration pipeline
\* ------------------------------------------------------------------------

DocEntry(w) == final_model_yaml.weather_parameters[w]

\* the unadjusted threshold the exported document gives for (w, h, v)
DocT_weather(w, h, v) ==
    LET g == final_model_yaml.coefficients_global
    IN  NMul(DocEntry(w).alpha_weather,
             NAdd(NAdd(NAdd(NMul(g.height, h), NMul(g.height2, NMul(h, h))),
                       NMul(g.velocity, v)),
                  g.intercept))

\* the adjusted threshold the exported document gives for (w, h, v)
DocT_end(w, h, v) ==
    NAdd(NSub(DocT_weather(w, h, v), NMul(Num(2), DocEntry(w).bias.sigma)),
         DocEntry(w).bias.mu)

\* C9 as stated: once a calibration run has exported a document, every
\* decision uses the a, b, c, intercept, alpha, mu and sigma of that document.
C9_DocumentIsSource ==
    (final_model_yaml.written /\ Completed) =>
        /\ NEq(frame.predicted_time, DocT_weather(weather, height, velocity))
        /\ NEq(frame.adjusted_time, DocT_end(weather, height, velocity))

\* C10 as stated: after a completed run the exported document holds an entry
\* (alpha, mu, sigma) for every weather label of the training data and for no
\* other label.
C10_EntryPerTrainingLabel ==
    cal_pc = "exported" =>
        DOMAIN final_model_yaml.weather_parameters = Present(weather_train)

\* the weather the bias loop of main() is about to process
bias_next == BiasWeathers[Cardinality(DOMAIN bias_v2) + 1]

\* C11: when a weather category has no rows or fewer than 3 rows, the bias loop
\* does not abort the run: it leaves that weather out and goes on with the
\* other categories.
C11_SparseWeatherLeftOut ==
    [][(cal_pc = "cross_validated" /\ datas_until_limit[bias_next] < 3)
          => (cal_pc' # "failed" /\ bias_next \notin DOMAIN bias_v2')]_vars

\* C12: no row of the held-out test split is among the rows the per-weather
\* bias (mu, sigma) is fitted on: they are all rows of the train split.
C12_BiasFittedOnTrainRows ==
    \A w \in DOMAIN bias_fit_rows : bias_fit_rows[w].test = 0

\* what a run yields: a run that fails yields its exception and nothing else
Yield(result) ==
    IF result.status = "exported" THEN result
    ELSE [status |-> result.status, error |-> result.error]

\* C13: for a fixed set of dataset files, two runs of the calibration yield the
\* same result (the same end of the run, the same fitted rows and test rows,
\* alpha for the same weathers), whatever the order in which the files are
\* enumerated and whatever the time of the run.
C13_RunsAgree ==
    \A i, j \in DOMAIN run_log : Yield(run_log[i].result) = Yield(run_log[j].result)

\* ------------------------------------------------------------------------
\* Properties of loading and preparation
\* ------------------------------------------------------------------------

RowsOf(table) == {table.rows[i] : i \in DOMAIN table.rows}

\* the CSV files of the folder, and those among them load_csv_files reads
all_csv == SelectSeq(csv_folder, LAMBDA fp : fp.suffix = ".csv")

ReadFiles == {i \in DOMAIN all_csv : has_underscore(all_csv[i])}

\* r is the row q, possibly with more columns
SameRow(r, q) ==
    /\ r.origin = q.origin
    /\ r.line = q.line
    /\ \A c \in DOMAIN q.cells : c \in DOMAIN r.cells /\ r.cells[c] = q.cells[c]

\* C14: every row that reaches model fitting has velocity_kmh > 0; rows whose
\* velocity is zero, negative or invalid are removed before the safety time is
\* derived from it.
C14_FittedRowsHavePositiveVelocity ==
    load_pc = "prepared" =>
        \A r \in RowsOf(df) : NLt(Num(0), r.cells["velocity_exp2"])

BelowLimit(q) == NLt(q.cells["avg_safety_time"], limit_arg)

\* C15: filtering with a limit returns exactly the input rows whose
\* avg_safety_time is strictly less than the limit (a row equal to the limit is
\* removed, no row is added), and leaves the dataset passed in unchanged.
C15_FilterKeepsStrictlyBelow ==
    (load_pc = "prepared" /\ limit_arg # Unset) =>
        /\ \A q \in RowsOf(datas) : (\E r \in RowsOf(df) : SameRow(r, q)) <=> BelowLimit(q)
        /\ \A r \in RowsOf(df) : \E q \in RowsOf(datas) : SameRow(r, q)
        /\ Len(df.rows) = Cardinality({i \in DOMAIN datas.rows : BelowLimit(datas.rows[i])})
        /\ datas = load_csv_files(csv_folder).returned

C15_Witness ==
    /\ load_pc = "prepared"
    /\ limit_arg = SAFETY_TIME_LIMIT
    /\ \E q \in RowsOf(datas) :
           /\ NEq(q.cells["avg_safety_time"], limit_arg)
           /\ ~\E r \in RowsOf(df) : SameRow(r, q)
    /\ \E q \in RowsOf(datas) : \E r \in RowsOf(df) : SameRow(r, q)

\* a required column that none of the files read holds
Absent(c) == \A i \in ReadFiles : c \notin all_csv[i].columns

\* C16: loading fails with a load error, before any feature is derived or any
\* model is fitted, when no source file matches (also when the folder holds
\* CSV files none of which is named <weather>_<condition>.csv) or when a
\* required column is absent from the files.
C16_LoadFailsFirst ==
    (load_pc # "idle" /\ (ReadFiles = {} \/ \E c \in RequiredColumns : Absent(c))) =>
        /\ load_pc = "failed"
        /\ load_raised.in = "load_csv_files"
        /\ load_raised.derived = {}

Loaded == load_pc \in {"loaded", "prepared"}

\* the row of datas that line k of file i became, if any
RowFrom(i, k) == {r \in RowsOf(datas) : r.origin = i /\ r.line = k}

\* the columns of the concatenation, and the lines that have a cell in each
\* of them and a safety time
ReadColumns == UNION {all_csv[i].columns : i \in ReadFiles} \ {WEATHER_COL}

Complete(i, k) ==
    LET line == all_csv[i].lines[k]
    IN  /\ ReadColumns \subseteq all_csv[i].columns
        /\ \A x \in 1..3 : line[x].k # "nan"
        /\ ~(line[1].s = 0 /\ line[2].s = 0)

LabelFromFileName(r) ==
    /\ r.origin \in ReadFiles
    /\ r.cells[WEATHER_COL] = all_csv[r.origin].stem[1]

\* C17 as stated: the loaded dataset contains the rows of every dataset file,
\* each with the label its file name encodes before the first underscore.
C17_EveryRowLoaded ==
    Loaded =>
        /\ \A i \in ReadFiles : \A k \in DOMAIN all_csv[i].lines : RowFrom(i, k) # {}
        /\ \A r \in RowsOf(datas) : LabelFromFileName(r)

\* C17: the loaded dataset contains, of every file named with an underscore,
\* the rows without a missing cell after the derivation; each row carries the
\* label its file name encodes before the first underscore, never the label of
\* another file or of a data column.
C17_CompleteRowsLoaded ==
    Loaded =>
        /\ \A i \in ReadFiles : \A k \in DOMAIN all_csv[i].lines :
               RowFrom(i, k) # {} <=> Complete(i, k)
        /\ \A r \in RowsOf(datas) : LabelFromFileName(r)

C17_Witness ==
    /\ load_pc = "loaded"
    /\ \E r, q \in RowsOf(datas) :
           /\ r.cells[WEATHER_COL] = "clear"
           /\ q.cells[WEATHER_COL] = "rain"
           /\ WEATHER_COL \in all_csv[q.origin].columns

\* ------------------------------------------------------------------------
\* Properties of the cross-validation
\* ------------------------------------------------------------------------

\* the folds whose validation rows contain weather w
FoldsWith(w) == {i \in DOMAIN kf_val : kf_val[i][w] > 0}

RECURSIVE SumOfFolds(_, _)
SumOfFolds(S, w) ==
    IF S = {} THEN Num(0)
    ELSE LET i == CHOOSE x \in S : TRUE
         IN  NAdd(alpha_w_of(i, w), SumOfFolds(S \ {i}, w))

\* C18: a fold whose validation rows contain no row of a weather contributes
\* no alpha value for it and raises no error; the released alpha[weather] is
\* the arithmetic mean of mean(true)/mean(predicted) over exactly the folds
\* whose validation rows contain that weather.
C18_AlphaIsMeanOverFoldsWithWeather ==
    /\ (kf_pc = "failed") => Total(kf_train) < N_SPLITS_CV
    /\ \A w \in DOMAIN kf_alphas_cv : Len(kf_alphas_cv[w]) = Cardinality(FoldsWith(w))
    /\ kf_pc = "returned" =>
           \A w \in DOMAIN kf_alpha_means :
               /\ FoldsWith(w) # {}
               /\ NEq(NMul(kf_alpha_means[w], Num(Cardinality(FoldsWith(w)))),
                      SumOfFolds(FoldsWith(w), w))

C18_Witness ==
    /\ kf_pc = "returned"
    /\ \E w \in DOMAIN kf_alpha_means :
           /\ \E i \in DOMAIN kf_val : kf_val[i][w] = 0
           /\ Cardinality(FoldsWith(w)) > 1
           /\ IsFinite(kf_alpha_means[w])

\* ------------------------------------------------------------------------
\* Properties of the command line
\* ------------------------------------------------------------------------

\* the three numbers of the command line, where each word is a number
CliNumbers == {float_of(cli_argv.height), float_of(cli_argv.velocity), float_of(cli_argv.distance)}

\* C19: the command-line program exits with a non-zero status when the weather
\* is not a trained category or when height, velocity or distance is
\* non-finite (for example nan or inf), and with status zero otherwise.
C19_ExitStatus ==
    (cli_pc = "exited" /\ Unset \notin CliNumbers) =>
        (cli_exit.status # 0 <=>
            (cli_argv.weather \notin Trained \/ CliNumbers \cap NonFinite # {}))

\* ------------------------------------------------------------------------
\* Properties of the session runner
\* ------------------------------------------------------------------------

StartsIn(log) == {p \in DOMAIN log : log[p].event = "started"}

\* C20: the commands of the plan are executed one at a time in file order:
\* command k+1 is started only after command k has returned exit code 0 and
\* the operator has then confirmed; once a command returns a non-zero exit
\* code, no later command is ever started.
C20_OneAtATimeInOrder ==
    /\ \A p \in StartsIn(sess_log) :
           LET k == sess_log[p].command
           IN  /\ k = Cardinality({q \in StartsIn(sess_log) : q <= p})
               /\ k <= Len(commands)
               /\ sess_log[p].line = commands[k]
               /\ k > 1 => /\ p > 2
                           /\ sess_log[p - 2] = Exit(k - 1, 0)
                           /\ sess_log[p - 1] = Confirmed(k - 1)
    /\ \A p \in DOMAIN sess_log :
           (sess_log[p].event = "returned" /\ sess_log[p].returncode # 0)
               => p = Len(sess_log) /\ sess_pc \in {"returned"}
    /\ sess_pc = "running" =>
           (sess_log # << >> /\ sess_log[Len(sess_log)] = Started(idx, commands[idx]))

C20_Witness ==
    /\ sess_pc = "returned"
    /\ Cardinality(StartsIn(sess_log)) = 2
    /\ Len(commands) = 3
    /\ sess_log[Len(sess_log)] = Exit(2, 1)

\* ------------------------------------------------------------------------
\* Properties of one trial of experiment 2
\* ------------------------------------------------------------------------

\* the positions i of a binary signal where it is 1 at i and 0 at i + 1
Falls(cross) == {i \in 1..(Len(cross) - 1) : cross[i] = 10 /\ cross[i + 1] = 0}

FirstFall(cross) == CHOOSE i \in Falls(cross) : \A j \in Falls(cross) : i <= j

\* the absolute gap of the k-th visible row of the trial
GapAt(k) == Distance(Abs(gap_m(visible(exp2_rows)[k], pos_map[exp2_pos + 1])))

\* C21: whenever the binarized Crossing signal of a trial has a 1-to-0
\* transition, the safety distance compute_trial_exp2 returns is the
\* absolute gap at the first such transition (at the last 1 or at the first
\* 0 of it), hence not NaN
C21_SafetyDistanceAtFirstFall ==
    (exp2_pc # "idle" /\ exp2_analysis.ok /\ Falls(exp2_analysis.series_cross) # {})
        => LET i == FirstFall(exp2_analysis.series_cross)
           IN  exp2_analysis.safety_distance_m \in {GapAt(i), GapAt(i + 1)}

\* C29: for the same trial logs the loader stores the safety distance the
\* analysis computes: the loader raises on no trial the analysis accepts,
\* and the two values are the same distance or both undefined
C29_LoaderAgreesWithAnalysis ==
    (exp2_pc = "inserted" /\ exp2_analysis.ok)
        => /\ exp2_loader.raised = "none"
           /\ exp2_loader.safety_distance = exp2_analysis.safety_distance_m

\* ------------------------------------------------------------------------
\* Properties of the weather annotator
\* ------------------------------------------------------------------------

\* the positions of the log where a run of n consecutive annotations starts
AnnotationRuns(n) ==
    {k \in 1..(Len(ann_log) - n + 1) : \A j \in k..(k + n - 1) : ann_log[j].action = "annotate"}

\* C22: with autosave_every = N > 0 every run of N annotations that follow
\* one another contains one that saved the annotations; with N = 0 no
\* annotation saves
C22_SavedEveryNAnnotations ==
    ann_pc = "open"
        => IF autosave_every = 0
           THEN \A k \in 1..Len(ann_log) : ann_log[k].action = "annotate" => ~ann_log[k].saved
           ELSE \A k \in AnnotationRuns(autosave_every) :
                    \E j \in k..(k + autosave_every - 1) : ann_log[j].saved

\* the file the sessions write
OutputFile == IF make_output_path(inplace) = "csv_path" THEN csv_file ELSE weather_file

Labelled(cells) == {r \in 1..Len(cells) : cells[r] # "nan"}

\* C23: a session opened after an earlier one that labelled some rows shows
\* the frame as the earlier session left it, points at the first row
\* without a label, and never writes an output file in which a row the
\* earlier session labelled has lost its label
C23_SessionResumes ==
    (ann_sessions >= 2 /\ ann_pc \in {"open", "closed"} /\ Labelled(ann_closed[1]) # {})
        => /\ (ann_pc = "open" /\ ann_log = << >>)
                  => /\ ann_df = ann_closed[1]
                     /\ nan_positions(ann_closed[1]) # {}
                            => ann_i = initial_i(ann_closed[1])
           /\ OutputFile.exists
           /\ Labelled(ann_closed[1]) \subseteq Labelled(OutputFile.weather)

\* a step in which the user annotates
AnnotateStep ==
    /\ Len(ann_log') = Len(ann_log) + 1
    /\ ann_log'[Len(ann_log')].action = "annotate"

\* C28: on a CSV with at least one row the pointer of an open annotator is
\* always a row of the CSV, and an annotation changes the label of the row
\* under the pointer at that moment and of no other row
C28_PointerInRange ==
    [][/\ (ann_pc' = "open" /\ Len(ann_df') >= 1) => ann_i' \in 0..(Len(ann_df') - 1)
       /\ AnnotateStep =>
              \E label \in AnnotationLabels : ann_df' = [ann_df EXCEPT ![ann_i + 1] = label]]_vars

C28_Witness ==
    /\ ann_pc = "open"
    /\ Len(ann_df) = MaxRows
    /\ ann_i = 0
    /\ ann_df[1] # "nan"
    /\ Len(ann_log) = 3
    /\ ann_log[1].action = "annotate"
    /\ ann_log[2].action = "previous"
    /\ ann_log[3].action = "previous"

\* ------------------------------------------------------------------------
\* Properties of the participant plans
\* ------------------------------------------------------------------------

\* the rows of the plan with the given velocity, distance, weather, position
RowsWith(velocity_kmh, distance_m, weather_type, position) ==
    {i \in 1..Len(plan_rows) :
        /\ plan_rows[i].Velocity = velocity_kmh
        /\ plan_rows[i].Distance = distance_m
        /\ plan_rows[i].Weather = weather_type
        /\ plan_rows[i].Position = position}

Range(s) == {s[i] : i \in 1..Len(s)}

WeatherTypes == {weather_list[i].weather_type : i \in 1..Len(weather_list)}

\* C24: a plan file holds 27 trials; in experiment 1 all at one position,
\* each (velocity, distance, weather) of the participant's groups once; in
\* experiment 2 each (velocity, weather, position) of the participant's
\* group once
C24_EveryCombinationOnce ==
    plan_pc = "written"
        => /\ Len(plan_rows) = 27
           /\ plan_exp = 1
                  => \E position \in Range(positions) :
                         /\ \A i \in 1..Len(plan_rows) : plan_rows[i].Position = position
                         /\ \A v \in Range(plan_groups.velocity_group),
                               d \in Range(plan_groups.distance_group), w \in WeatherTypes :
                                Cardinality(RowsWith(v, d, w, position)) = 1
           /\ plan_exp = 2
                  => \A v \in Range(plan_groups.velocity_group), w \in WeatherTypes,
                        position \in Range(positions) :
                         Cardinality(RowsWith(v, 0, w, position)) = 1

\* a plan of experiment 1 written in another order than the loops produce
C24_Witness ==
    /\ plan_pc = "written"
    /\ plan_exp = 1
    /\ plan_groups = [velocity_group |-> group2, distance_group |-> group1]
    /\ plan_rows[1].Velocity = 70
    /\ plan_rows[1].Weather = "rain"
    /\ plan_rows[27].Velocity = 30

\* ------------------------------------------------------------------------
\* Properties of the evaluation against the decision function
\* ------------------------------------------------------------------------

SameNumber(x, y) == x = y \/ NEq(x, y)

\* C25: with the coefficients of the decision function, predict_final_one
\* returns as "no_bias" the predicted_time and as "final" the adjusted_time
\* of the decision function for the same weather, height and velocity
C25_PredictionsAreThresholds ==
    (pred_pc = "predicted" /\ frame.raised = "none" /\ prediction.raised = "none")
        => /\ SameNumber(prediction.no_bias, frame.predicted_time)
           /\ SameNumber(prediction.final, frame.adjusted_time)

C25_Witness ==
    /\ pred_pc = "predicted"
    /\ weather = "rain"
    /\ height = Num(175)
    /\ velocity = Num(50)
    /\ prediction.raised = "none"
    /\ NLt(prediction.final, prediction.no_bias)
    /\ prediction.final = frame.adjusted_time

\* ------------------------------------------------------------------------
\* Properties of disappearance_time
\* ------------------------------------------------------------------------

\* the positions of the signal given that are kept after the ignored head
KeptSignal == SelectSeq([k \in 1..Len(dis_x) |-> IF k \in kept_positions(dis_x, dis_ignore)
                                                  THEN k ELSE 0],
                        LAMBDA k : k # 0)

\* the kept samples j at which X_pos goes from non-zero to zero
ToZero ==
    {j \in 2..Len(KeptSignal) : dis_x[KeptSignal[j - 1]] # 0 /\ dis_x[KeptSignal[j]] = 0}

\* X_pos is zero at the `dis_hold` kept samples from j on; when the signal
\* ends before, `whole` asks for all of them and otherwise those there are
StaysZero(j, whole) ==
    /\ whole => j + dis_hold - 1 <= Len(KeptSignal)
    /\ \A k \in j..(j + dis_hold - 1) : k <= Len(KeptSignal) => dis_x[KeptSignal[k]] = 0

\* the first kept sample with the smallest |X_pos|
SmallestAbs ==
    CHOOSE j \in 1..Len(KeptSignal) :
        /\ \A k \in 1..Len(KeptSignal) : Abs(dis_x[KeptSignal[j]]) <= Abs(dis_x[KeptSignal[k]])
        /\ \A k \in 1..(j - 1) : Abs(dis_x[KeptSignal[k]]) # Abs(dis_x[KeptSignal[j]])

\* the time the description gives: of the earliest transition that stays
\* zero, and without one of the sample with the smallest |X_pos|
DescribedTime(whole) ==
    LET held == {j \in ToZero : StaysZero(j, whole)}
    IN  IF held # {}
        THEN time_of(KeptSignal[CHOOSE j \in held : \A k \in held : j <= k])
        ELSE time_of(KeptSignal[SmallestAbs])

C27_SpawnedActorsDestroyed ==
    trial_pc = "ended"
        => /\ (results # << >> => created_by(results) \subseteq destroy_sent)
           /\ world_actors = {}

\* ------------------------------------------------------------------------
\* Properties of the folds as a partition
\* ------------------------------------------------------------------------

\* the rows of weather w in the validation folds 1..k
RECURSIVE ValidatedRows(_, _)
ValidatedRows(w, k) == IF k = 0 THEN 0 ELSE kf_val[k][w] + ValidatedRows(w, k - 1)

\* C30: when cross-validation has returned, the validation folds hold every
\* train row once, so every weather of the train split has at least one
\* alpha value and its entry of alpha_means is not the mean of an empty list
C30_EveryTrainWeatherHasAlpha ==
    kf_pc = "returned"
        => /\ \A w \in Labels : ValidatedRows(w, Len(kf_val)) = kf_train[w]
           /\ \A w \in Present(kf_train) :
                  /\ w \in DOMAIN kf_alpha_means
                  /\ kf_alphas_cv[w] # << >>
                  /\ kf_alpha_means[w] # NaN

\* a weather with a single train row: one fold has it, the others skip it
C30_Witness ==
    /\ kf_pc = "returned"
    /\ \E w \in Present(kf_train) :
           /\ kf_train[w] = 1
           /\ Len(kf_alphas_cv[w]) = 1
           /\ IsFinite(kf_alpha_means[w])

====
